---------------------------- MODULE Spec2Model ----------------------------
(***************************************************************************)
(* A model of src/main.py: the text normalisation of AdvancedMathProcessor *)
(* (preprocess_text, handle_mathematical_notation,                         *)
(* parse_mathematical_expression) and its four-stage pipeline              *)
(* (step1_parse_and_validate .. step4_format_output, process_user_input),  *)
(* and the assistant OllamaAI (chat, explain_error, explain_step and the   *)
(* conversation history).                                                  *)
(*                                                                         *)
(* A text is a sequence of characters, each character a one-character      *)
(* string.  A character outside ASCII is written by its code point         *)
(* ("U+0432" is the Cyrillic letter ve).  The symbolic engine (sympy) is   *)
(* outside the program: what its calls return is chosen by \E in the       *)
(* actions.                                                                *)
(***************************************************************************)
EXTENDS Integers, Sequences, FiniteSets, TLC

VARIABLES
    \* the text functions
    raw,        \* the text the user typed
    text,       \* the text after the calls of `trail`
    before,     \* the text the last call of `trail` was given
    trail,      \* the functions applied to raw so far, oldest first
    parsed,     \* what parse_mathematical_expression(raw) returned, or NoParse
    \* one call of a stage function
    called,     \* the stage function called, or "none"
    arg,        \* the expression it was given
    engine,     \* what the engine's calls did during the call
    result,     \* the dictionary the call returned
    \* process_user_input
    show_steps, \* its argument show_steps
    calls,      \* the calls it made up to the solve stage, oldest first
    \* OllamaAI
    settings,   \* its AISettings
    conversation_history,   \* its conversation_history
    exchanged   \* every entry appended to conversation_history since it was
                \* last emptied, oldest first

textVars == <<raw, text, before, trail, parsed>>

callVars == <<called, arg, engine, result>>

pipeVars == <<show_steps, calls>>

chatVars == <<settings, conversation_history, exchanged>>

vars == <<raw, text, before, trail, parsed, called, arg, engine, result,
          show_steps, calls, settings, conversation_history, exchanged>>

-----------------------------------------------------------------------------
(* Bounds of the model. *)

\* the longest input, in tokens of Tokens
MaxTokens == 3

\* how many times in a row preprocess_text is applied to a text
MaxPasses == 2

\* how many strategies of one step2_simplify call raise or return a form of
\* their own while the others return the expression unchanged
MaxDeviating == 2

-----------------------------------------------------------------------------
(* Characters. *)

Digits == <<"0","1","2","3","4","5","6","7","8","9">>

DigitChars == {"0","1","2","3","4","5","6","7","8","9"}

IsDigit(c) == c \in DigitChars

\* the class [a-zA-Z_] of the multiplication rules
LetterChars ==
         {"a","b","c","d","e","f","g","h","i","j","k","l","m","n","o","p","q",
           "r","s","t","u","v","w","x","y","z","A","B","C","D","E","F","G","H",
           "I","J","K","L","M","N","O","P","Q","R","S","T","U","V","W","X","Y",
           "Z","_"}

IsLetter(c) == c \in LetterChars

\* the eight Cyrillic letters of cyrillic_replacements
IsCyrillic(c) ==
    c \in {"U+0445","U+0443","U+0437","U+0430","U+0431","U+0432","U+043F","U+0435"}

\* the class \w of Python's re on str: letters of any alphabet, digits, _
IsWordChar(c) == IsLetter(c) \/ IsDigit(c) \/ IsCyrillic(c)

IsSpace(c) == c = " "

-----------------------------------------------------------------------------
(* str operations. *)

SubStr(s, i, j) == IF j < i THEN <<>> ELSE SubSeq(s, i, j)

\* TRUE, and s is computed: a function that rewrites a string in stages
\* computes each stage before the next one starts
Computed(s) == Len(s) >= 0

StartsAt(s, w, i) ==
    /\ i >= 1
    /\ i + Len(w) - 1 <= Len(s)
    /\ \A k \in 1..Len(w) : s[i + k - 1] = w[k]

\* `w in s`
Contains(s, w) == \E i \in 1..(Len(s) - Len(w) + 1) : StartsAt(s, w, i)

\* the least j >= i with s[j] = c, or 0
FirstIndex(s, c, i) ==
    LET js == {j \in i..Len(s) : s[j] = c}
    IN  IF js = {} THEN 0 ELSE CHOOSE j \in js : \A k \in js : j <= k

\* s[i..] with every occurrence of old replaced: up to the next occurrence
\* as it is, new in its place, and on from its end
RECURSIVE ReplaceFrom(_, _, _, _)
ReplaceFrom(s, old, new, i) ==
    LET at == {p \in i..Len(s) : StartsAt(s, old, p)}
    IN  IF at = {} THEN SubStr(s, i, Len(s))
        ELSE LET p == CHOOSE q \in at : \A r \in at : q <= r
             IN  SubStr(s, i, p - 1) \o new \o ReplaceFrom(s, old, new, p + Len(old))

\* s.replace(old, new): every occurrence, leftmost first, none overlapping
str_replace(s, old, new) == IF Contains(s, old) THEN ReplaceFrom(s, old, new, 1) ELSE s

\* s.strip()
strip(s) ==
    LET keep == {i \in 1..Len(s) : ~IsSpace(s[i])}
    IN  IF keep = {} THEN <<>>
        ELSE SubSeq(s, CHOOSE i \in keep : \A k \in keep : i <= k,
                       CHOOSE i \in keep : \A k \in keep : k <= i)

\* re.sub(r'\s+', ' ', s)
RECURSIVE CollapseFrom(_, _)
CollapseFrom(s, i) ==
    IF i > Len(s) THEN <<>>
    ELSE IF IsSpace(s[i])
         THEN IF i > 1 /\ IsSpace(s[i - 1]) THEN CollapseFrom(s, i + 1)
              ELSE <<" ">> \o CollapseFrom(s, i + 1)
         ELSE <<s[i]>> \o CollapseFrom(s, i + 1)

collapse_whitespace(s) == CollapseFrom(s, 1)

\* \bword\b matches at i
WordAt(s, w, i) ==
    /\ StartsAt(s, w, i)
    /\ (i = 1 \/ ~IsWordChar(s[i - 1]))
    /\ (i + Len(w) > Len(s) \/ ~IsWordChar(s[i + Len(w)]))

HasWord(s, w) == \E i \in 1..Len(s) : WordAt(s, w, i)

RECURSIVE SubWordFrom(_, _, _, _)
SubWordFrom(s, w, repl, i) ==
    LET at == {p \in i..Len(s) : WordAt(s, w, p)}
    IN  IF at = {} THEN SubStr(s, i, Len(s))
        ELSE LET p == CHOOSE q \in at : \A r \in at : q <= r
             IN  SubStr(s, i, p - 1) \o repl \o SubWordFrom(s, w, repl, p + Len(w))

-----------------------------------------------------------------------------
(* preprocess_text *)

\* the (pattern, replacement) list of preprocess_text, each pattern \bname\b
function_patterns ==
    << <<<<"l","g">>, <<"l","o","g","1","0">>>>,
       <<<<"l","n">>, <<"l","o","g">>>>,
       <<<<"a","r","c","t","g">>, <<"a","t","a","n">>>>,
       <<<<"a","r","c","s","i","n">>, <<"a","s","i","n">>>>,
       <<<<"a","r","c","c","o","s">>, <<"a","c","o","s">>>>,
       <<<<"s","h">>, <<"s","i","n","h">>>>,
       <<<<"c","h">>, <<"c","o","s","h">>>>,
       <<<<"t","h">>, <<"t","a","n","h">>>> >>

cyrillic_replacements ==
    << <<<<"U+0445">>, <<"x">>>>,
       <<<<"U+0443">>, <<"y">>>>,
       <<<<"U+0437">>, <<"z">>>>,
       <<<<"U+0430">>, <<"a">>>>,
       <<<<"U+0431">>, <<"b">>>>,
       <<<<"U+0432">>, <<"c">>>>,
       <<<<"U+043F">>, <<"p","i">>>>,
       <<<<"U+0435">>, <<"E">>>> >>

\* ^, root sign, infinity, plus-minus, times, division sign
symbol_replacements ==
    << <<<<"^">>, <<"*","*">>>>,
       <<<<"U+221A">>, <<"s","q","r","t">>>>,
       <<<<"U+221E">>, <<"o","o">>>>,
       <<<<"U+00B1">>, <<"+","/","-">>>>,
       <<<<"U+00D7">>, <<"*">>>>,
       <<<<"U+00F7">>, <<"/">>>> >>

\* a regex that ignores the word boundaries: every occurrence of the name
re_sub_name(s, w, repl) == str_replace(s, w, repl)

\* re.sub(r'\bw\b', repl, s)
re_sub_word(s, w, repl) == IF HasWord(s, w) THEN SubWordFrom(s, w, repl, 1) ELSE s

\* for pattern, replacement in function_patterns: expression = re.sub(...)
RECURSIVE replace_functions(_, _)
replace_functions(s, k) ==
    IF k > Len(function_patterns) THEN s
    ELSE LET next == re_sub_word(s, function_patterns[k][1], function_patterns[k][2])
         IN  IF Computed(next) THEN replace_functions(next, k + 1) ELSE next

\* for old, new in table.items(): expression = expression.replace(old, new)
RECURSIVE replace_each(_, _, _)
replace_each(s, table, k) ==
    IF k > Len(table) THEN s
    ELSE LET next == str_replace(s, table[k][1], table[k][2])
         IN  IF Computed(next) THEN replace_each(next, table, k + 1) ELSE next

\* the aliases first, then the letters, then the symbols
preprocess_text(expression) ==
    LET spaced   == collapse_whitespace(strip(expression))
        aliased  == replace_functions(spaced, 1)
        latin    == replace_each(aliased, cyrillic_replacements, 1)
    IN  IF Computed(spaced) /\ Computed(aliased) /\ Computed(latin)
        THEN replace_each(latin, symbol_replacements, 1)
        ELSE latin

-----------------------------------------------------------------------------
(* handle_mathematical_notation, up to the string it hands to the parser *)

protected_words ==
    << <<"p","i">>, <<"E">>, <<"o","o">>, <<"I">>,
       <<"s","i","n">>, <<"c","o","s">>, <<"t","a","n">>,
       <<"c","o","t">>, <<"s","e","c">>, <<"c","s","c">>,
       <<"a","s","i","n">>, <<"a","c","o","s">>, <<"a","t","a","n">>,
       <<"a","c","o","t">>, <<"a","s","e","c">>, <<"a","c","s","c">>,
       <<"s","i","n","h">>, <<"c","o","s","h">>, <<"t","a","n","h">>,
       <<"c","o","t","h">>, <<"s","e","c","h">>, <<"c","s","c","h">>,
       <<"l","o","g">>, <<"l","o","g","1","0">>, <<"l","n">>,
       <<"e","x","p">>, <<"s","q","r","t">>, <<"c","b","r","t">>,
       <<"f","a","c","t","o","r","i","a","l">>, <<"g","a","m","m","a">>,
       <<"b","e","t","a">>,
       <<"A","b","s">>, <<"a","b","s">>, <<"M","a","x">>, <<"M","i","n">>,
       <<"S","u","m">>, <<"P","r","o","d","u","c","t">>,
       <<"I","n","t","e","g","r","a","l">>,
       <<"D","e","r","i","v","a","t","i","v","e">> >>

\* the end of the run of word characters (of digits) that starts at i, or
\* i - 1 when s[i] is not one
WordRunEnd(s, i) ==
    LET stops == {j \in i..Len(s) : ~IsWordChar(s[j])}
    IN  IF stops = {} THEN Len(s) ELSE (CHOOSE j \in stops : \A k \in stops : j <= k) - 1

DigitRunEnd(s, i) ==
    LET stops == {j \in i..Len(s) : ~IsDigit(s[j])}
    IN  IF stops = {} THEN Len(s) ELSE (CHOOSE j \in stops : \A k \in stops : j <= k) - 1

\* the names whose calls handle_mathematical_notation evaluates when the
\* argument is a number (the second function_patterns list of the source)
numeric_call_names ==
    << <<"l","o","g","1","0">>, <<"l","o","g">>, <<"s","q","r","t">>,
       <<"s","i","n">>, <<"c","o","s">>, <<"t","a","n">>,
       <<"f","a","c","t","o","r","i","a","l">>, <<"e","x","p">> >>

\* sympify(arg) is a number: of the arguments the texts of this model can
\* hold, the integer literals
IsNumberArg(a) == a # <<>> /\ \A k \in 1..Len(a) : IsDigit(a[k])

\* str() of the engine's value of name(arg) for an integer literal with no
\* closed form: the call itself
engine_str(name, a) == name \o <<"(">> \o a \o <<")">>

\* re.sub(name\(([^)]+)\), replace_func, s): a call whose argument is a
\* number is replaced by its value, any other match is put back as it was
RECURSIVE EvalCallsFrom(_, _, _)
EvalCallsFrom(s, name, i) ==
    IF i > Len(s) THEN <<>>
    ELSE LET a     == i + Len(name) + 1
             close == FirstIndex(s, ")", a)
         IN  IF StartsAt(s, name \o <<"(">>, i) /\ close > a
             THEN (IF IsNumberArg(SubStr(s, a, close - 1))
                   THEN engine_str(name, SubStr(s, a, close - 1))
                   ELSE SubStr(s, i, close))
                  \o EvalCallsFrom(s, name, close + 1)
             ELSE <<s[i]>> \o EvalCallsFrom(s, name, i + 1)

RECURSIVE evaluate_numeric_calls(_, _)
evaluate_numeric_calls(s, k) ==
    IF k > Len(numeric_call_names) THEN s
    ELSE LET next == IF Contains(s, numeric_call_names[k] \o <<"(">>)
                     THEN EvalCallsFrom(s, numeric_call_names[k], 1) ELSE s
         IN  IF Computed(next) THEN evaluate_numeric_calls(next, k + 1) ELSE next

\* re.sub(r'(\w+)\^(\d+)\(([^)]+)\)', r'\1(\3)**\2', s): sin^2(x) -> sin(x)**2
RECURSIVE PowerCallsFrom(_, _)
PowerCallsFrom(s, i) ==
    IF i > Len(s) THEN <<>>
    ELSE IF ~IsWordChar(s[i]) THEN <<s[i]>> \o PowerCallsFrom(s, i + 1)
    ELSE LET j     == WordRunEnd(s, i)      \* \1 is s[i..j]
             m     == DigitRunEnd(s, j + 2)     \* \2 is s[j+2..m]
             close == FirstIndex(s, ")", m + 2)     \* \3 is s[m+2..close-1]
         IN  IF /\ j + 1 <= Len(s) /\ s[j + 1] = "^"
                /\ m >= j + 2
                /\ m + 1 <= Len(s) /\ s[m + 1] = "("
                /\ close > m + 2
             THEN SubStr(s, i, j) \o <<"(">> \o SubStr(s, m + 2, close - 1)
                  \o <<")", "*", "*">> \o SubStr(s, j + 2, m)
                  \o PowerCallsFrom(s, close + 1)
             ELSE SubStr(s, i, j) \o PowerCallsFrom(s, j + 1)

rewrite_power_calls(s) == IF Contains(s, <<"^">>) THEN PowerCallsFrom(s, 1) ELSE s

\* str(temp_counter)
DecimalOf(n) ==
    IF n < 10 THEN <<Digits[n + 1]>>
    ELSE <<Digits[(n \div 10) + 1], Digits[(n % 10) + 1]>>

\* f"__TEMP_{temp_counter}__"
temp_marker(n) == <<"_","_","T","E","M","P","_">> \o DecimalOf(n) \o <<"_","_">>

\* for word in protected_words: if word in expression: a new marker takes the
\* place of every occurrence.  temp_replacements is the list of
\* <<marker, word>> in the order the dictionary got them.  The words that do
\* not occur are passed over in one step: j is the next word that occurs.
RECURSIVE ProtectFrom(_, _, _, _)
ProtectFrom(expression, k, temp_counter, temp_replacements) ==
    LET found == {j \in k..Len(protected_words) :
                     Contains(expression, protected_words[j])}
    IN  IF found = {}
        THEN [expression |-> expression, temp_replacements |-> temp_replacements]
        ELSE LET j    == CHOOSE i \in found : \A h \in found : i <= h
                 next == ReplaceFrom(expression, protected_words[j],
                                     temp_marker(temp_counter), 1)
                 list == Append(temp_replacements,
                                <<temp_marker(temp_counter), protected_words[j]>>)
             IN  IF Computed(next) /\ Computed(list)
                 THEN ProtectFrom(next, j + 1, temp_counter + 1, list)
                 ELSE [expression |-> next, temp_replacements |-> list]

protect_words(expression) == ProtectFrom(expression, 1, 0, <<>>)

\* a `*` between every s[i] of class Left and s[i + 1] of class Right: what
\* re.sub does for each of the five rules, whose matches (\d+)([a-zA-Z_]),
\* ([a-zA-Z_])(\d+), (\d+)\(, \)([a-zA-Z_]), \)(\d+) never overlap
RECURSIVE InsertMulFrom(_, _, _, _)
InsertMulFrom(s, Left, Right, i) ==
    LET at == {p \in i..(Len(s) - 1) : s[p] \in Left /\ s[p + 1] \in Right}
    IN  IF at = {} THEN SubStr(s, i, Len(s))
        ELSE LET p == CHOOSE q \in at : \A r \in at : q <= r
             IN  SubStr(s, i, p) \o <<"*">> \o InsertMulFrom(s, Left, Right, p + 1)

\* the five rules, in the order of the source
insert_multiplication(s) ==
    LET r1 == InsertMulFrom(s,  DigitChars, LetterChars, 1)    \* 2x  -> 2*x
        r2 == InsertMulFrom(r1, LetterChars, DigitChars, 1)    \* x2  -> x*2
        r3 == InsertMulFrom(r2, DigitChars, {"("}, 1)          \* 2(  -> 2*(
        r4 == InsertMulFrom(r3, {")"}, LetterChars, 1)         \* )x  -> )*x
    IN  IF Computed(r1) /\ Computed(r2) /\ Computed(r3) /\ Computed(r4)
        THEN InsertMulFrom(r4, {")"}, DigitChars, 1)           \* )2  -> )*2
        ELSE r4

\* for temp_marker, original_word in temp_replacements.items(): replace
restore_words(s, temp_replacements) == replace_each(s, temp_replacements, 1)

\* re.sub(r'\|([^|]+)\|', r'Abs(\1)', s)
RECURSIVE AbsFrom(_, _)
AbsFrom(s, i) ==
    IF i > Len(s) THEN <<>>
    ELSE LET close == FirstIndex(s, "|", i + 1)
         IN  IF s[i] = "|" /\ close > i + 1
             THEN <<"A","b","s","(">> \o SubStr(s, i + 1, close - 1) \o <<")">>
                  \o AbsFrom(s, close + 1)
             ELSE <<s[i]>> \o AbsFrom(s, i + 1)

rewrite_abs(s) == IF Contains(s, <<"|">>) THEN AbsFrom(s, 1) ELSE s

\* The string handle_mathematical_notation hands to
\* parse_with_implicit_multiplication.
handle_mathematical_notation(expression) ==
    LET evaluated == evaluate_numeric_calls(expression, 1)
        powered   == rewrite_power_calls(evaluated)
        protected == protect_words(powered)
        multiplied == insert_multiplication(protected.expression)
        restored  == restore_words(multiplied, protected.temp_replacements)
    IN  IF /\ Computed(evaluated) /\ Computed(powered)
           /\ Computed(protected.expression) /\ Computed(multiplied)
           /\ Computed(restored)
        THEN rewrite_abs(restored)
        ELSE restored

-----------------------------------------------------------------------------
(* parse_mathematical_expression, up to the calls into the engine *)

\* re.search(name\(([^,]+),\s*([^)]+)\), s): <<group 1, group 2>> of the
\* leftmost match, or <<>> when there is none
construct_match(s, name) ==
    LET Comma(p) == FirstIndex(s, ",", p + Len(name) + 1)
        Close(p) == FirstIndex(s, ")", Comma(p) + 1)
        ok == {p \in 1..Len(s) :
                  /\ StartsAt(s, name \o <<"(">>, p)
                  /\ Comma(p) > p + Len(name) + 1
                  /\ Close(p) > Comma(p) + 1}
    IN  IF ok = {} THEN <<>>
        ELSE LET p == CHOOSE q \in ok : \A r \in ok : q <= r
             IN  << SubStr(s, p + Len(name) + 1, Comma(p) - 1),
                    SubStr(s, Comma(p) + 1, Close(p) - 1) >>

\* the test of line 525 with '<' and '>' in place of '<=' and '>='
has_equals_no_relation(expression) ==
    /\ Contains(expression, <<"=">>)
    /\ ~Contains(expression, <<"<">>)
    /\ ~Contains(expression, <<">">>)
    /\ ~Contains(expression, <<"=","=">>)

\* '=' in expression and not any(op in expression for op in ['<=', '>=', '=='])
has_bare_equals(expression) ==
    /\ Contains(expression, <<"=">>)
    /\ ~Contains(expression, <<"<","=">>)
    /\ ~Contains(expression, <<">","=">>)
    /\ ~Contains(expression, <<"=","=">>)

\* len(expression.split('=')) == 2
splits_in_two(expression) ==
    Cardinality({i \in 1..Len(expression) : expression[i] = "="}) = 1

\* parse_mathematical_expression with diff( looked for before integrate(
parse_diff_first(expression) ==
    LET eq        == FirstIndex(expression, "=", 1)
        left      == preprocess_text(strip(SubStr(expression, 1, eq - 1)))
        right     == preprocess_text(strip(SubStr(expression, eq + 1, Len(expression))))
        processed == preprocess_text(expression)
        integral  == IF Contains(processed, <<"i","n","t","e","g","r","a","t","e","(">>)
                     THEN construct_match(processed, <<"i","n","t","e","g","r","a","t","e">>)
                     ELSE <<>>
        derivative == IF Contains(processed, <<"d","i","f","f","(">>)
                      THEN construct_match(processed, <<"d","i","f","f">>)
                      ELSE <<>>
    IN  IF has_bare_equals(expression) /\ splits_in_two(expression)
        THEN [node |-> "Equation", notation |-> <<left, right>>,
              engine |-> << handle_mathematical_notation(left),
                            handle_mathematical_notation(right) >>]
        ELSE IF derivative # <<>>
        THEN [node |-> "Derivative", notation |-> <<>>,
              engine |-> <<derivative[1], strip(derivative[2])>>]
        ELSE IF integral # <<>>
        THEN [node |-> "Integral", notation |-> <<>>,
              engine |-> <<integral[1], strip(integral[2])>>]
        ELSE [node |-> "Expression", notation |-> <<processed>>,
              engine |-> <<handle_mathematical_notation(processed)>>]

\* What parse_mathematical_expression builds: the node, the texts it passed
\* to handle_mathematical_notation (notation) and the texts that reached the
\* engine (engine: the parser's input, or the two arguments of a construct).
parse_mathematical_expression(expression) ==
    LET eq        == FirstIndex(expression, "=", 1)
        left      == preprocess_text(strip(SubStr(expression, 1, eq - 1)))
        right     == preprocess_text(strip(SubStr(expression, eq + 1, Len(expression))))
        processed == preprocess_text(expression)
        integral  == IF Contains(processed, <<"i","n","t","e","g","r","a","t","e","(">>)
                     THEN construct_match(processed, <<"i","n","t","e","g","r","a","t","e">>)
                     ELSE <<>>
        derivative == IF Contains(processed, <<"d","i","f","f","(">>)
                      THEN construct_match(processed, <<"d","i","f","f">>)
                      ELSE <<>>
    IN  IF has_bare_equals(expression) /\ splits_in_two(expression)
        THEN [node |-> "Equation", notation |-> <<left, right>>,
              engine |-> << handle_mathematical_notation(left),
                            handle_mathematical_notation(right) >>]
        ELSE IF integral # <<>>
        THEN [node |-> "Integral", notation |-> <<>>,
              engine |-> <<integral[1], strip(integral[2])>>]
        ELSE IF derivative # <<>>
        THEN [node |-> "Derivative", notation |-> <<>>,
              engine |-> <<derivative[1], strip(derivative[2])>>]
        ELSE [node |-> "Expression", notation |-> <<processed>>,
              engine |-> <<handle_mathematical_notation(processed)>>]

-----------------------------------------------------------------------------
(* The text functions, called on the texts of the model. *)

\* the pieces the input texts are made of
Tokens ==
    { <<"2">>, <<"x">>, <<"s","i","n">>, <<"(","x",")">>, <<"^","2">>,
      <<"l","n">>, <<"U+0432">>, <<"h">>, <<" ">> }

RECURSIVE Flatten(_)
Flatten(ts) == IF ts = <<>> THEN <<>> ELSE Head(ts) \o Flatten(Tail(ts))

Inputs == {Flatten(ts) : ts \in UNION {[1..n -> Tokens] : n \in 0..MaxTokens}}

NoParse == [node |-> "none", notation |-> <<>>, engine |-> <<>>]

TextInit ==
    /\ raw \in Inputs
    /\ text = raw
    /\ before = raw
    /\ trail = <<>>
    /\ parsed = NoParse

\* preprocess_text(text), on the input or on its own result
CallPreprocessText ==
    /\ Len(trail) < MaxPasses
    /\ \A k \in 1..Len(trail) : trail[k] = "preprocess_text"
    /\ text' = preprocess_text(text)
    /\ before' = text
    /\ trail' = Append(trail, "preprocess_text")
    /\ UNCHANGED <<raw, parsed, called, arg, engine, result, show_steps, calls, chatVars>>

\* handle_mathematical_notation(text), on the input or on preprocessed text
CallHandleMathematicalNotation ==
    /\ trail \in {<<>>, <<"preprocess_text">>}
    /\ text' = handle_mathematical_notation(text)
    /\ before' = text
    /\ trail' = Append(trail, "handle_mathematical_notation")
    /\ UNCHANGED <<raw, parsed, called, arg, engine, result, show_steps, calls, chatVars>>

\* parse_mathematical_expression(raw)
CallParseMathematicalExpression ==
    /\ trail = <<>>
    /\ parsed' = parse_mathematical_expression(raw)
    /\ trail' = <<"parse_mathematical_expression">>
    /\ UNCHANGED <<raw, text, before, called, arg, engine, result, show_steps, calls, chatVars>>

TextNext ==
    \/ CallPreprocessText
    \/ CallHandleMathematicalNotation
    \/ CallParseMathematicalExpression

-----------------------------------------------------------------------------
(* The engine's expression trees.                                          *)
(*                                                                         *)
(* The program reads of a tree: its class (isinstance), the number of its  *)
(* free symbols, its operation count (sp.count_ops) and which substrings   *)
(* its str() holds.  A tree of the model is a record of these readings,    *)
(* and two trees are equal (==) exactly when their records are.            *)
(***************************************************************************)

\* the substrings the program looks for in str(expr):
\*   "trig"          one of sin, cos, tan, sec, csc, cot
\*   "log"           one of log, exp, ln
\*   "log(exp("      the literal log(exp(
\*   "log(exp(..))"  the pattern log\(exp\(([^)]+)\)\) matches
\*   "exp(log("      the literal exp(log(
\*   "exp(log(..))"  the pattern exp\(log\(([^)]+)\)\) matches
\*   "<>"            one of <, >
\*   "len<=3"        str(expr).strip() has at most three characters
Tree(name, kind, symbols, ops, marks) ==
    [name |-> name, kind |-> kind, symbols |-> symbols, ops |-> ops, marks |-> marks]

\* what a strategy can turn an expression into
Forms ==
    { Tree("x", "Symbol", 1, 0, {"len<=3"}),
      Tree("(x + 1)**2", "Expression", 1, 2, {}),
      Tree("x**2 + 1", "Expression", 1, 2, {}) }

\* the expressions step2_simplify and step3_solve are called on
Trees ==
    Forms \cup
    { Tree("x**2 + 2*x + 1", "Expression", 1, 4, {}),
      Tree("x*y + x", "Expression", 2, 2, {}),
      Tree("5", "Expression", 0, 0, {}),
      Tree("sin(x)**2 + cos(x)**2", "Expression", 1, 5, {"trig"}),
      Tree("log(exp(x))", "Expression", 1, 2, {"log", "log(exp(", "log(exp(..))"}),
      Tree("log(exp(x)*y)", "Expression", 2, 3, {"log", "log(exp("}),
      Tree("exp(log(x))", "Expression", 1, 2, {"log", "exp(log(", "exp(log(..))"}),
      Tree("log(exp(x)) + exp(log(y))", "Expression", 2, 5,
           {"log", "log(exp(", "log(exp(..))", "exp(log(", "exp(log(..))"}),
      Tree("log(x) + log(y)", "Expression", 2, 3, {"log"}),
      Tree("sin(x)*log(x)", "Expression", 1, 3, {"trig", "log"}),
      Tree("Derivative(x**3, x)", "Derivative", 1, 2, {}),
      Tree("Derivative(log(exp(x)), x)", "Derivative", 1, 3,
           {"log", "log(exp(", "log(exp(..))"}),
      Tree("Integral(x**2, x)", "Integral", 1, 2, {}),
      Tree("Integral(sin(x), (x, 0, 1))", "Integral", 0, 2, {"trig"}),
      Tree("Eq(x**2, 4)", "Equation", 1, 2, {}),
      Tree("Eq(sin(1)**2 + cos(1)**2, 1)", "Equation", 0, 6, {"trig"}),
      Tree("Eq(y, Piecewise((x, x < 0), (1, True)))", "Equation", 2, 3, {"<>"}),
      Tree("x > 2", "Relational", 1, 1, {"<>"}),
      Tree("x > y", "Relational", 2, 1, {"<>"}),
      Tree("theta", "Symbol", 1, 0, {}),
      Tree("Piecewise((5, pi < 4), (1, True))", "Expression", 0, 2, {"<>"}) }

\* a call that raised (in the place of the tree it would have returned)
Raise == Tree("raise", "Raised", 0, 0, {})

\* Python's None, where the program holds it in the place of a tree
None == Tree("None", "NoneType", 0, 0, {})

\* a str the program stores among trees
Str(s) == Tree(s, "str", 0, 0, {})

\* sp.count_ops(tree)
count_ops(tree) == tree.ops

\* isinstance(expr, (sp.Derivative, sp.Integral))
is_construct(expr) == expr.kind \in {"Derivative", "Integral"}

-----------------------------------------------------------------------------
(* step2_simplify *)

\* the engine's functions step2_simplify calls, each once and on expr (the
\* two sympify calls on the text the identity patterns extracted)
Strategies ==
    {"simplify", "expand", "factor", "cancel", "collect", "trigsimp",
     "logcombine", "powsimp", "expand_log", "replace"}

Extractions == {"sympify_log_exp", "sympify_exp_log"}

\* try: steps[name] = f(expr)  except: pass, with the exception let through
uncaught(outcome, expr) == outcome

\* try: steps[name] = f(expr)  except: steps[name] = expr
try_or_expr(outcome, expr) == IF outcome = Raise THEN expr ELSE outcome

\* lines 642-668: the identity found in the text form of the expression
identity_steps(expr, eng) ==
    (IF /\ "log(exp(" \in expr.marks
        /\ "log(exp(..))" \in expr.marks
        /\ eng["sympify_log_exp"] # Raise
     THEN << <<"log_exp_identity", eng["sympify_log_exp"]>> >> ELSE <<>>)
    \o
    (IF /\ "exp(log(" \in expr.marks
        /\ "exp(log(..))" \in expr.marks
        /\ eng["sympify_exp_log"] # Raise
     THEN << <<"exp_log_identity", eng["sympify_exp_log"]>> >> ELSE <<>>)

\* lines 670-703: each strategy in a try of its own
generic_steps(expr, eng) ==
    << <<"basic",     try_or_expr(eng["simplify"], expr)>>,
       <<"expanded",  try_or_expr(eng["expand"], expr)>>,
       <<"factored",  try_or_expr(eng["factor"], expr)>>,
       <<"cancelled", try_or_expr(eng["cancel"], expr)>> >>
    \o
    (IF expr.symbols > 0
     THEN << <<"collected", try_or_expr(eng["collect"], expr)>> >> ELSE <<>>)
    \o
    (IF "trig" \in expr.marks
     THEN << <<"trigsimp", try_or_expr(eng["trigsimp"], expr)>> >> ELSE <<>>)

\* lines 706-720: the three log strategies and the replacement in one try,
\* which the first exception leaves
log_steps(expr, eng) ==
    IF "log" \notin expr.marks \/ eng["logcombine"] = Raise THEN <<>>
    ELSE << <<"logsimp", eng["logcombine"]>> >> \o
    (IF eng["powsimp"] = Raise THEN <<>>
     ELSE << <<"powersimp", eng["powsimp"]>> >> \o
     (IF eng["expand_log"] = Raise THEN <<>>
      ELSE << <<"expand_log", eng["expand_log"]>> >> \o
      (IF "log(exp(" \in expr.marks /\ eng["replace"] # Raise
       THEN << <<"log_exp_replace", eng["replace"]>> >> ELSE <<>>)))

\* the dictionary `steps`, as the list of its items
all_steps(expr, eng) ==
    identity_steps(expr, eng) \o generic_steps(expr, eng) \o log_steps(expr, eng)

\* lines 723-726
candidates_of(steps, expr) == SelectSeq(steps, LAMBDA item : item[2] # expr)

priority_steps == <<"log_exp_identity", "exp_log_identity", "log_exp_replace">>

\* the result of the first item of the list with this name, or expr
named_or_expr(candidates, step_name, expr) ==
    LET hits == {k \in 1..Len(candidates) : candidates[k][1] = step_name}
    IN  IF hits = {} THEN expr
        ELSE candidates[CHOOSE k \in hits : \A j \in hits : k <= j][2]

\* lines 733-740: the first name of priority_steps that is a candidate's
RECURSIVE by_priority(_, _, _)
by_priority(candidates, expr, p) ==
    IF p > Len(priority_steps) THEN expr
    ELSE IF named_or_expr(candidates, priority_steps[p], expr) # expr
         THEN named_or_expr(candidates, priority_steps[p], expr)
         ELSE by_priority(candidates, expr, p + 1)

\* min(valid_candidates, key=...) with the last of the least taken
last_min_ops(candidates) ==
    LET least == {k \in 1..Len(candidates) :
                     \A j \in 1..Len(candidates) :
                         count_ops(candidates[k][2]) <= count_ops(candidates[j][2])}
    IN  candidates[CHOOSE k \in least : \A j \in least : j <= k][2]

\* lines 744-754: min(valid_candidates, key=lambda x: x[0]), the first of
\* the candidates with the least operation count
min_ops(candidates) ==
    LET least == {k \in 1..Len(candidates) :
                     \A j \in 1..Len(candidates) :
                         count_ops(candidates[k][2]) <= count_ops(candidates[j][2])}
    IN  candidates[CHOOSE k \in least : \A j \in least : k <= j][2]

\* the choice that looks at the operation counts alone
choose_by_ops(candidates, expr) ==
    IF candidates = <<>> THEN expr ELSE min_ops(candidates)

\* lines 728-758
choose_best(candidates, expr) ==
    IF candidates = <<>> THEN expr
    ELSE IF by_priority(candidates, expr, 1) # expr
         THEN by_priority(candidates, expr, 1)
         ELSE min_ops(candidates)

\* the steps kept for display when the filter of lines 761-764 is left out
\* for a preserved construct
unfiltered_steps(preserved, steps, expr) ==
    IF preserved # <<>> THEN preserved ELSE candidates_of(steps, expr)

\* lines 761-764: result['simplification_steps'] is set, whatever it held,
\* to the steps that differ from expr
displayed_steps(preserved, steps, expr) == candidates_of(steps, expr)

\* an exception reached the outer try of step2_simplify: expr is None (it has
\* no free_symbols), or a strategy's exception was not caught
step2_raised(expr, steps) ==
    \/ expr = None
    \/ \E k \in 1..Len(steps) : steps[k][2] = Raise

step2_simplify(expr, eng) ==
    LET construct == is_construct(expr)
        steps     == IF expr = None \/ construct THEN <<>> ELSE all_steps(expr, eng)
        preserved == IF construct THEN << <<"preserved", Str("preserved")>> >> ELSE <<>>
    IN  IF step2_raised(expr, steps)
        THEN [stage |-> "simplify", success |-> FALSE,
              original_expression |-> expr, simplified_expression |-> expr,
              simplification_steps |-> <<>>, errors |-> <<"exception">>]
        ELSE [stage |-> "simplify", success |-> TRUE,
              original_expression |-> expr,
              simplified_expression |->
                  IF construct THEN expr
                  ELSE choose_best(candidates_of(steps, expr), expr),
              simplification_steps |-> displayed_steps(preserved, steps, expr),
              errors |-> <<>>]

\* What the engine does during one call of step2_simplify(expr): family A,
\* any set of strategies raises and the others all return one form; family
\* B, at most MaxDeviating strategies raise or return a form of their own and
\* the others return expr unchanged.  sympify of an extracted text returns
\* the inner expression or raises.
SimplifyProfiles(expr) ==
    LET A == {[s \in Strategies |-> IF s \in F THEN Raise ELSE v] :
                 F \in SUBSET Strategies, v \in {expr} \cup Forms}
        B == UNION {{[s \in Strategies |-> IF s \in D THEN vals[s] ELSE expr] :
                        vals \in [D -> Forms \cup {Raise}]} :
                    D \in {D \in SUBSET Strategies : Cardinality(D) <= MaxDeviating}}
        Inner(mark) == IF mark \in expr.marks
                       THEN {Tree("x", "Symbol", 1, 0, {"len<=3"}), Raise}
                       ELSE {Raise}
        X == {[e \in Extractions |-> IF e = "sympify_log_exp" THEN a ELSE b] :
                 a \in Inner("log(exp(..))"), b \in Inner("exp(log(..))")}
    IN  {st @@ ex : st \in A \cup B, ex \in X}

\* the expressions step2_simplify is called on in SpecSimplify: one for each
\* combination of the readings it branches on
SimplifyInputs ==
    {t \in Trees : t.name \in
        {"x**2 + 2*x + 1", "5", "sin(x)**2 + cos(x)**2", "log(exp(x))",
         "log(exp(x)*y)", "log(exp(x)) + exp(log(y))", "sin(x)*log(x)",
         "Derivative(x**3, x)", "Derivative(log(exp(x)), x)",
         "Integral(sin(x), (x, 0, 1))"}}

NoEngine == [s \in {} |-> Raise]

NoResult == [stage |-> "none"]

CallIdle ==
    /\ called = "none"
    /\ engine = NoEngine
    /\ result = NoResult

TextIdle ==
    /\ raw = <<>>
    /\ text = <<>>
    /\ before = <<>>
    /\ trail = <<>>
    /\ parsed = NoParse

PipeIdle ==
    /\ show_steps = FALSE
    /\ calls = <<>>

\* AISettings.__init__, but for show_steps
AISettings ==
    [ai_error_explanations |-> FALSE, ai_step_explanations |-> FALSE,
     skip_model_check |-> FALSE]

\* OllamaAI.__init__
ChatIdle ==
    /\ settings = AISettings
    /\ conversation_history = <<>>
    /\ exchanged = <<>>

SimplifyInit ==
    /\ TextIdle
    /\ CallIdle
    /\ PipeIdle
    /\ ChatIdle
    /\ arg \in SimplifyInputs

\* step2_simplify(arg)
CallStep2Simplify ==
    /\ called = "none"
    /\ \E eng \in SimplifyProfiles(arg) :
           /\ engine' = eng
           /\ result' = step2_simplify(arg, eng)
    /\ called' = "step2_simplify"
    /\ UNCHANGED <<arg, textVars, pipeVars, chatVars>>

SimplifyNext == CallStep2Simplify

-----------------------------------------------------------------------------
(* step3_solve *)

\* the engine's functions step3_solve calls (logsimp: powsimp of logcombine)
SolveCalls ==
    {"doit", "solve", "solve_univariate_inequality", "evalf", "simplify", "logsimp"}

\* the chain with the test for free symbols moved to its head
branch_numeric_first(expr) ==
    IF expr.symbols = 0 THEN "numerical_evaluation"
    ELSE IF expr.kind = "Derivative" THEN "derivative"
    ELSE IF expr.kind = "Integral" THEN "integral"
    ELSE IF expr.kind = "Equation" THEN "equation"
    ELSE IF "<>" \in expr.marks THEN "inequality"
    ELSE "else"

\* the condition of the if/elif chain that holds first, by the category it
\* assigns ("else": the last branch, which assigns after simplifying)
branch_of(expr) ==
    IF expr.kind = "Derivative" THEN "derivative"
    ELSE IF expr.kind = "Integral" THEN "integral"
    ELSE IF expr.kind = "Equation" THEN "equation"
    ELSE IF "<>" \in expr.marks THEN "inequality"
    ELSE IF expr.symbols = 0 THEN "numerical_evaluation"
    ELSE "else"

\* lines 816-822: sp.simplify(expr), or the log simplification when it has
\* fewer operations; Raise when a call raised
simplified_of(expr, eng) ==
    IF eng["simplify"] = Raise THEN Raise
    ELSE IF "log" \notin expr.marks THEN eng["simplify"]
    ELSE IF eng["logsimp"] = Raise THEN Raise
    ELSE IF count_ops(eng["logsimp"]) < count_ops(eng["simplify"])
         THEN eng["logsimp"] ELSE eng["simplify"]

\* lines 825-830
is_simple_variable(expr) ==
    /\ expr.symbols = 1
    /\ "len<=3" \in expr.marks
    /\ expr.kind = "Symbol"

\* lines 833-836
expression_simplified(simplified, expr) ==
    /\ simplified # expr
    /\ \/ count_ops(simplified) < count_ops(expr)
       \/ simplified.name # expr.name

\* lines 788-853: <<problem_type, solutions>> as the try block leaves them,
\* solutions Raise when a call of the branch raised
solve_branch(expr, eng) ==
    LET branch == branch_of(expr) IN
    IF branch \in {"derivative", "integral"} THEN <<branch, eng["doit"]>>
    ELSE IF branch = "equation" THEN <<branch, eng["solve"]>>
    ELSE IF branch = "inequality"
    THEN <<branch,
           IF expr.symbols # 1 THEN None
           ELSE IF eng["solve_univariate_inequality"] # Raise
                THEN eng["solve_univariate_inequality"]
                ELSE eng["solve"]>>
    ELSE IF branch = "numerical_evaluation" THEN <<branch, eng["evalf"]>>
    ELSE IF simplified_of(expr, eng) = Raise THEN <<"None", Raise>>
    ELSE IF is_simple_variable(expr) THEN <<"simplification", expr>>
    ELSE IF expression_simplified(simplified_of(expr, eng), expr)
         THEN <<"simplification", simplified_of(expr, eng)>>
    ELSE <<"equation_zero", eng["solve"]>>

\* step3_solve with an except branch that records the exception and does not
\* retry
step3_without_fallback(expr, eng) ==
    LET tried == IF expr = None THEN <<"None", Raise>> ELSE solve_branch(expr, eng)
    IN  IF tried[2] # Raise
        THEN [stage |-> "solve", success |-> TRUE, problem_type |-> tried[1],
              solutions |-> tried[2], additional_info |-> <<>>, errors |-> <<>>]
        ELSE [stage |-> "solve", success |-> FALSE, problem_type |-> tried[1],
              solutions |-> None, additional_info |-> <<>>,
              errors |-> <<"exception">>]

step3_solve(expr, eng) ==
    LET tried == IF expr = None THEN <<"None", Raise>> ELSE solve_branch(expr, eng)
    IN  IF tried[2] # Raise
        THEN [stage |-> "solve", success |-> TRUE, problem_type |-> tried[1],
              solutions |-> tried[2], additional_info |-> <<>>, errors |-> <<>>]
        ELSE IF eng["simplify"] # Raise
        THEN [stage |-> "solve", success |-> TRUE,
              problem_type |-> "simplification", solutions |-> eng["simplify"],
              additional_info |-> <<>>, errors |-> <<"exception">>]
        ELSE [stage |-> "solve", success |-> FALSE, problem_type |-> tried[1],
              solutions |-> None, additional_info |-> <<>>,
              errors |-> <<"exception">>]

\* what the engine returns to step3_solve
Evaluated == Tree("3*x**2", "Expression", 1, 2, {})

Roots == Tree("[-2, 2]", "list", 0, 0, {})

NoRoots == Tree("[]", "list", 0, 0, {})

Interval == Tree("Interval.open(2, oo)", "Set", 0, 0, {})

Float == Tree("5.00000000000000", "Float", 0, 0, {})

\* What the engine does during one call of step3_solve(expr): each function
\* returns a value or raises; sp.simplify is one function of expr, in the last
\* branch and in the fallback.
SolveProfiles(expr) ==
    LET Generic  == IF expr = None THEN {None, Raise} ELSE {expr, Raise} \cup Forms
        Combined == {expr, Tree("x", "Symbol", 1, 0, {"len<=3"}), Raise}
    IN  {[f \in SolveCalls |->
             IF f = "doit" THEN d
             ELSE IF f = "solve" THEN s
             ELSE IF f = "solve_univariate_inequality" THEN u
             ELSE IF f = "evalf" THEN e
             ELSE IF f = "simplify" THEN g
             ELSE l] :
            d \in {Evaluated, Raise}, s \in {Roots, NoRoots, Raise},
            u \in {Interval, Raise}, e \in {Float, Raise},
            g \in Generic, l \in Combined}

\* the expressions step3_solve is called on: a tree, or the None that
\* step2_simplify returns for a text that did not parse
SolveInputs == Trees \cup {None}

SolveInit ==
    /\ TextIdle
    /\ CallIdle
    /\ PipeIdle
    /\ ChatIdle
    /\ arg \in SolveInputs

\* step3_solve(arg)
CallStep3Solve ==
    /\ called = "none"
    /\ \E eng \in SolveProfiles(arg) :
           /\ engine' = eng
           /\ result' = step3_solve(arg, eng)
    /\ called' = "step3_solve"
    /\ UNCHANGED <<arg, textVars, pipeVars, chatVars>>

SolveNext == CallStep3Solve

-----------------------------------------------------------------------------
(* The pipeline: step1_parse_and_validate, step4_format_output and         *)
(* process_user_input.  The texts of the model hold no LaTeX, and step 1   *)
(* is modelled on its branch for the input type 'mathematical'.            *)
(***************************************************************************)

\* a backslash and a letter, or a brace pair, makes the text LaTeX
detect_input_type(expression) ==
    IF \/ \E i \in 1..(Len(expression) - 1) :
              expression[i] = "\\" /\ expression[i + 1] \in LetterChars \ {"_"}
       \/ \E i, j \in 1..Len(expression) :
              i < j /\ expression[i] = "{" /\ expression[j] = "}"
    THEN "latex" ELSE "mathematical"

\* one call of an engine function, or of a stage function, on an expression
Call(by, fn, on) == [by |-> by, fn |-> fn, on |-> on]

\* validate_expression(expr): has(zoo) or has(nan), then sp.simplify(expr)
validate_expression(expr, has, simplified) ==
    IF has THEN FALSE ELSE simplified # Raise

validate_calls(expr, has) ==
    << Call("validate_expression", "has", expr) >> \o
    (IF has THEN <<>> ELSE << Call("validate_expression", "simplify", expr) >>)

\* eng.parse: the tree the engine built from the texts that
\* parse_mathematical_expression gave it, or Raise
step1_parse_and_validate(user_input, eng) ==
    IF eng.parse = Raise
    THEN [stage |-> "parse", success |-> FALSE,
          input_type |-> detect_input_type(user_input),
          original_input |-> user_input, preprocessed |-> "None",
          parsed_expression |-> None, validation_result |-> FALSE,
          errors |-> <<"exception">>]
    ELSE [stage |-> "parse",
          success |-> validate_expression(eng.parse, eng.has, eng.simplify["simplify"]),
          input_type |-> detect_input_type(user_input),
          original_input |-> user_input, preprocessed |-> eng.parse.name,
          parsed_expression |-> eng.parse,
          validation_result |->
              validate_expression(eng.parse, eng.has, eng.simplify["simplify"]),
          errors |-> <<>>]

step1_calls(eng) ==
    IF eng.parse = Raise THEN <<>> ELSE validate_calls(eng.parse, eng.has)

\* the engine functions step2_simplify calls on expr, in the order of the calls
step2_calls(expr, eng) ==
    LET On(fns) == [k \in 1..Len(fns) |-> Call("step2_simplify", fns[k], expr)]
    IN  IF expr = None THEN On(<<"simplify", "expand", "factor", "cancel">>)
        ELSE IF is_construct(expr) THEN <<>>
        ELSE On(<<"simplify", "expand", "factor", "cancel">>
                \o (IF expr.symbols > 0 THEN <<"collect">> ELSE <<>>)
                \o (IF "trig" \in expr.marks THEN <<"trigsimp">> ELSE <<>>)
                \o (IF "log" \notin expr.marks THEN <<>>
                    ELSE <<"logcombine">> \o
                    (IF eng["logcombine"] = Raise THEN <<>>
                     ELSE <<"powsimp">> \o
                     (IF eng["powsimp"] = Raise THEN <<>>
                      ELSE <<"expand_log">> \o
                      (IF eng["expand_log"] # Raise /\ "log(exp(" \in expr.marks
                       THEN <<"replace">> ELSE <<>>)))))

\* what the formatting calls of step4_format_output do
Formats == {"return", "evalf raises", "latex and pretty raise"}

step4_format_output(solutions, problem_type, format) ==
    IF solutions = None
    THEN [stage |-> "format", success |-> FALSE, numerical_output |-> "None",
          latex_output |-> "None", pretty_output |-> "None", errors |-> <<>>]
    ELSE IF solutions.kind # "list" /\ format = "evalf raises"
    THEN [stage |-> "format", success |-> FALSE, numerical_output |-> "None",
          latex_output |-> "None", pretty_output |-> "None",
          errors |-> <<"exception">>]
    ELSE [stage |-> "format", success |-> TRUE,
          numerical_output |->
              IF solutions.kind = "list" THEN "str(solutions)"
              ELSE "str(solutions.evalf())",
          latex_output |->
              IF format = "latex and pretty raise" THEN "str(solutions)"
              ELSE "latex(solutions)",
          pretty_output |->
              IF format = "latex and pretty raise" THEN "str(solutions)"
              ELSE "pretty(solutions)",
          errors |-> <<>>]

\* final_result, and the calls made up to the solve stage
process_user_input(user_input, show, eng) ==
    LET stage1 == step1_parse_and_validate(user_input, eng)
        expr   == stage1.parsed_expression
        stage2 == step2_simplify(expr, eng.simplify)
        simplified_expr == stage2.simplified_expression
        stage3 == step3_solve(simplified_expr, eng.solve)
        stage4 == step4_format_output(stage3.solutions, stage3.problem_type, eng.format)
    IN  IF show /\ ~stage1.success
        THEN [final |-> [success |-> FALSE, original_input |-> user_input,
                         stages |-> <<stage1>>, final_answer |-> NoResult,
                         problem_type |-> "None"],
              calls |-> step1_calls(eng)]
        ELSE [final |-> [success |-> TRUE, original_input |-> user_input,
                         stages |-> <<stage1, stage2, stage3, stage4>>,
                         final_answer |-> stage4,
                         problem_type |-> stage3.problem_type],
              calls |-> step1_calls(eng)
                        \o << Call("process_user_input", "step2_simplify", expr) >>
                        \o step2_calls(expr, eng.simplify)
                        \o << Call("process_user_input", "step3_solve",
                                   simplified_expr) >>]

\* the texts process_user_input is called on
PipelineInputs ==
    { <<"d","i","f","f","(","x","^","3",","," ","x",")">>,
      <<"i","n","t","e","g","r","a","t","e","(","x","^","2",","," ","x",")">>,
      <<"x","^","2"," ","="," ","4">>,
      <<"x"," ",">"," ","2">>,
      <<"x"," ",">"," ","y">>,
      <<"l","o","g","(","e","x","p","(","x",")",")">>,
      <<"2","s","i","n","(","x",")">>,
      <<"5">> }

\* the trees the engine builds for the texts of PipelineInputs
PipelineTrees ==
    {t \in Trees : t.name \in
        {"Derivative(x**3, x)", "Integral(x**2, x)", "Eq(x**2, 4)", "x > 2",
         "x > y", "log(exp(x))", "x**2 + 2*x + 1", "5"}}

\* the classes of tree a node of parse_mathematical_expression is built as
KindsOf(node) ==
    IF node = "Expression" THEN {"Expression", "Symbol", "Relational"} ELSE {node}

\* the engine parses the texts it is given into a tree of the node's class,
\* or raises
ParseOutcomes(user_input) ==
    {Raise} \cup
    {t \in PipelineTrees :
        t.kind \in KindsOf(parse_mathematical_expression(user_input).node)}

\* step2_simplify's engine during a run: the strategies all return expr, all
\* raise, or all return x
PipelineSimplify(expr) ==
    {[s \in Strategies \cup Extractions |->
         IF s = "sympify_log_exp"
         THEN (IF "log(exp(..))" \in expr.marks THEN e ELSE Raise)
         ELSE IF s = "sympify_exp_log"
         THEN (IF "exp(log(..))" \in expr.marks THEN e ELSE Raise)
         ELSE o] :
        o \in (IF expr = None THEN {Raise}
               ELSE {expr, Raise, Tree("x", "Symbol", 1, 0, {"len<=3"})}),
        e \in {Tree("x", "Symbol", 1, 0, {"len<=3"}), Raise}}

\* step3_solve's engine during a run: the solving functions all return or all
\* raise, and sp.simplify does on the parsed expression what it did in
\* stage 1
PipelineSolve(expr, parsed_expression, simplify) ==
    {eng \in SolveProfiles(expr) :
        /\ eng["solve"] # NoRoots
        /\ \A f \in {"solve", "solve_univariate_inequality", "evalf"} :
               (eng[f] = Raise) = (eng["doit"] = Raise)
        /\ eng["logsimp"] \in {expr, Raise}
        /\ IF expr = parsed_expression /\ expr # None THEN eng["simplify"] = simplify
           ELSE eng["simplify"] \in {expr, Raise}}

PipelineInit ==
    /\ raw \in PipelineInputs
    /\ text = raw
    /\ before = raw
    /\ trail = <<>>
    /\ parsed = NoParse
    /\ CallIdle
    /\ arg = None
    /\ show_steps \in BOOLEAN
    /\ calls = <<>>
    /\ ChatIdle

\* process_user_input(raw, show_steps)
CallProcessUserInput ==
    /\ called = "none"
    /\ \E p \in ParseOutcomes(raw), has \in BOOLEAN, format \in Formats :
         LET expr == IF p = Raise THEN None ELSE p IN
         \E s2 \in PipelineSimplify(expr) :
           \E s3 \in PipelineSolve(step2_simplify(expr, s2).simplified_expression,
                                   expr, s2["simplify"]) :
             LET eng == [parse |-> p, has |-> has, simplify |-> s2,
                         solve |-> s3, format |-> format]
                 run == process_user_input(raw, show_steps, eng)
             IN  /\ engine' = eng
                 /\ result' = run.final
                 /\ calls' = run.calls
    /\ called' = "process_user_input"
    /\ parsed' = parse_mathematical_expression(raw)
    /\ UNCHANGED <<arg, raw, text, before, trail, show_steps, chatVars>>

PipelineNext == CallProcessUserInput

\* the categories step3_solve assigns, and the "None" it starts from
ProblemTypes ==
    {"None", "derivative", "integral", "equation", "inequality", "numeric",
     "simple_variable", "simplification", "equation_zero"}

\* the solutions step4_format_output is called on: what step3_solve returns
FormatInputs ==
    Trees \cup {Evaluated, Roots, NoRoots, Interval, Float, None}

FormatInit ==
    /\ TextIdle
    /\ CallIdle
    /\ PipeIdle
    /\ ChatIdle
    /\ arg \in FormatInputs

\* step4_format_output(arg, problem_type)
CallStep4FormatOutput ==
    /\ called = "none"
    /\ \E problem_type \in ProblemTypes, format \in Formats :
           /\ engine' = [format |-> format]
           /\ result' = step4_format_output(arg, problem_type, format)
    /\ called' = "step4_format_output"
    /\ UNCHANGED <<arg, textVars, pipeVars, chatVars>>

FormatNext == CallStep4FormatOutput

-----------------------------------------------------------------------------
(* The assistant: check_ollama_installation and OllamaAI.  The sentinel    *)
(* strings are written in English; "None" is the None that explain_error   *)
(* and explain_step return, and "raise" an exception leaving the function. *)
(***************************************************************************)

\* the length conversation_history is cut to
HistoryLimit == 20

\* What the library and the service do during one call of chat: the import of
\* ollama at start-up, ollama.list() in check_ollama_installation,
\* ollama.list() in check_model_availability, ollama.pull and ollama.chat.
Services ==
    [installed : BOOLEAN,
     list      : {"return", "raise"},
     models    : {"with model", "without model", "raise"},
     pull      : {"return", "raise"},
     chat      : {"reply", "raise"}]

check_ollama_installation(service) ==
    IF ~service.installed THEN FALSE ELSE service.list = "return"

check_model_availability(skip_model_check, service) ==
    IF skip_model_check THEN TRUE
    ELSE IF service.models = "raise" THEN FALSE
    ELSE IF service.models = "without model" THEN service.pull = "return"
    ELSE TRUE

Entry(role, content) == [role |-> role, content |-> content]

\* conversation_history[:20]
first_entries(history) ==
    IF Len(history) > HistoryLimit THEN SubSeq(history, 1, HistoryLimit)
    ELSE history

\* conversation_history[-20:]
last_entries(history) ==
    IF Len(history) > HistoryLimit
    THEN SubSeq(history, Len(history) - HistoryLimit + 1, Len(history))
    ELSE history

\* chat with the exception of ollama.chat left uncaught
chat_uncaught(history, message, prompt_type, include_history, skip, service) ==
    IF ~check_ollama_installation(service)
    THEN [returned |-> "Ollama unavailable", conversation_history |-> history]
    ELSE IF ~check_model_availability(skip, service)
    THEN [returned |-> "model unavailable", conversation_history |-> history]
    ELSE IF service.chat = "raise"
    THEN [returned |-> "raise", conversation_history |-> history]
    ELSE [returned |-> service.chat,
          conversation_history |->
              IF include_history /\ prompt_type = "dialog"
              THEN last_entries(history \o << Entry("user", message),
                                              Entry("assistant", service.chat) >>)
              ELSE history]

\* chat with the history kept for every prompt type
chat_any_prompt(history, message, prompt_type, include_history, skip, service) ==
    IF ~check_ollama_installation(service)
    THEN [returned |-> "Ollama unavailable", conversation_history |-> history]
    ELSE IF ~check_model_availability(skip, service)
    THEN [returned |-> "model unavailable", conversation_history |-> history]
    ELSE IF service.chat = "raise"
    THEN [returned |-> "AI error", conversation_history |-> history]
    ELSE [returned |-> service.chat,
          conversation_history |->
              IF include_history
              THEN last_entries(history \o << Entry("user", message),
                                              Entry("assistant", service.chat) >>)
              ELSE history]

\* OllamaAI.chat: what it returns, and conversation_history after it
chat(history, message, prompt_type, include_history, skip, service) ==
    IF ~check_ollama_installation(service)
    THEN [returned |-> "Ollama unavailable", conversation_history |-> history]
    ELSE IF ~check_model_availability(skip, service)
    THEN [returned |-> "model unavailable", conversation_history |-> history]
    ELSE IF service.chat = "raise"
    THEN [returned |-> "AI error", conversation_history |-> history]
    ELSE [returned |-> service.chat,
          conversation_history |->
              IF include_history /\ prompt_type = "dialog"
              THEN last_entries(history \o << Entry("user", message),
                                              Entry("assistant", service.chat) >>)
              ELSE history]

explain_error(history, message, set, service) ==
    IF ~set.ai_error_explanations THEN "None"
    ELSE chat(history, message, "error", FALSE, set.skip_model_check, service).returned

explain_step(history, message, set, service) ==
    IF ~set.ai_step_explanations THEN "None"
    ELSE chat(history, message, "explanation", FALSE, set.skip_model_check,
              service).returned

\* process_user_input asking for the explanation of a stage: self.ai is None
\* when the library is not installed
stage_explanation(history, message, set, service) ==
    IF service.installed /\ set.ai_step_explanations
    THEN explain_step(history, message, set, service)
    ELSE "None"

\* the messages of the user and the prompts of explain_error, explain_step
Messages == {"2+2", "x^2 = 4"}

PromptTypes == {"dialog", "error", "explanation"}

\* setup_ai_settings
AllSettings ==
    [ai_error_explanations : BOOLEAN, ai_step_explanations : BOOLEAN,
     skip_model_check : BOOLEAN]

AssistantInit ==
    /\ TextIdle
    /\ CallIdle
    /\ PipeIdle
    /\ arg = "none"
    /\ settings \in AllSettings
    /\ conversation_history = <<>>
    /\ exchanged = <<>>

\* what one call of the assistant leaves in the state
Returned(fn, message, service, value) ==
    /\ called' = fn
    /\ arg' = message
    /\ engine' = service
    /\ result' = [stage |-> "assistant", returned |-> value]

\* chat(message, prompt_type, include_history)
CallChat ==
    /\ called = "none"
    /\ \E message \in Messages, prompt_type \in PromptTypes,
          include_history \in BOOLEAN, service \in Services :
         LET run == chat(conversation_history, message, prompt_type,
                         include_history, settings.skip_model_check, service)
         IN  /\ Returned("chat", message, service, run.returned)
             /\ conversation_history' = run.conversation_history
             /\ exchanged' =
                    IF run.conversation_history = conversation_history
                    THEN exchanged
                    ELSE exchanged \o << Entry("user", message),
                                         Entry("assistant", run.returned) >>
    /\ UNCHANGED <<textVars, pipeVars, settings>>

\* explain_error(error_msg, expression)
CallExplainError ==
    /\ called = "none"
    /\ \E message \in Messages, service \in Services :
           Returned("explain_error", message, service,
                    explain_error(conversation_history, message, settings, service))
    /\ UNCHANGED <<textVars, pipeVars, chatVars>>

\* explain_step(step_name, input_expr, output_expr)
CallExplainStep ==
    /\ called = "none"
    /\ \E message \in Messages, service \in Services :
           Returned("explain_step", message, service,
                    explain_step(conversation_history, message, settings, service))
    /\ UNCHANGED <<textVars, pipeVars, chatVars>>

\* process_user_input after a stage, with show_steps true
ExplainStage ==
    /\ called = "none"
    /\ \E message \in Messages, service \in Services :
           Returned("process_user_input", message, service,
                    stage_explanation(conversation_history, message, settings,
                                      service))
    /\ UNCHANGED <<textVars, pipeVars, chatVars>>

AssistantNext ==
    \/ CallChat
    \/ CallExplainError
    \/ CallExplainStep
    \/ ExplainStage

\* how many exchanges one dialogue of the model holds
MaxChats == 11

DialogueInit ==
    /\ TextIdle
    /\ CallIdle
    /\ PipeIdle
    /\ ChatIdle
    /\ arg = "none"

\* interactive_mode: one message of the user, answered by chat
Converse ==
    /\ Len(exchanged) < 2 * MaxChats
    /\ \E message \in Messages, service \in Services :
         LET run == chat(conversation_history, message, "dialog", TRUE,
                         settings.skip_model_check, service)
         IN  /\ called' = "chat"
             /\ arg' = message
             /\ result' = [stage |-> "assistant", returned |-> run.returned]
             /\ conversation_history' = run.conversation_history
             /\ exchanged' =
                    IF service.chat = "reply" /\ run.returned = service.chat
                    THEN exchanged \o << Entry("user", message),
                                         Entry("assistant", run.returned) >>
                    ELSE exchanged
    /\ UNCHANGED <<engine, textVars, pipeVars, settings>>

\* interactive_mode: the command that clears the history
Clear ==
    /\ conversation_history' = <<>>
    /\ exchanged' = <<>>
    /\ called' = "clear"
    /\ arg' = "clear"
    /\ result' = NoResult
    /\ UNCHANGED <<engine, textVars, pipeVars, settings>>

DialogueNext ==
    \/ Converse
    \/ Clear

-----------------------------------------------------------------------------
(* parse_mathematical_expression on texts with =, <, integrate( and diff(. *)

\* the longest of these texts, in pieces of ParseTokens and in characters
MaxPieces == 3

MaxChars == 19

ParseTokens ==
    { <<"x">>, <<"=", "2">>, <<"=">>, <<"<">>,
      <<"i","n","t","e","g","r","a","t","e","(">>,
      <<"d","i","f","f","(","x",",","x",")">>,
      <<"x",","," ","x",")">> }

ParseInputs ==
    {t \in {Flatten(ts) :
                ts \in UNION {[1..n -> ParseTokens] : n \in 0..MaxPieces}} :
        Len(t) <= MaxChars}

ParseInit ==
    /\ raw \in ParseInputs
    /\ text = raw
    /\ before = raw
    /\ trail = <<>>
    /\ parsed = NoParse
    /\ CallIdle
    /\ arg = None
    /\ PipeIdle
    /\ ChatIdle

ParseNext == CallParseMathematicalExpression

-----------------------------------------------------------------------------
(* The protection of handle_mathematical_notation followed by its          *)
(* restoration, on texts of protected words.                               *)
(***************************************************************************)

ProtectTokens ==
    { <<"p","i">>, <<"E">>, <<"s","i","n">>, <<"l","o","g">>, <<"1","0">>,
      <<"x">>, <<"(">>, <<")">> }

ProtectInputs ==
    {Flatten(ts) : ts \in UNION {[1..n -> ProtectTokens] : n \in 0..MaxTokens}}

ProtectInit ==
    /\ raw \in ProtectInputs
    /\ text = raw
    /\ before = raw
    /\ trail = <<>>
    /\ parsed = NoParse
    /\ CallIdle
    /\ arg = None
    /\ PipeIdle
    /\ ChatIdle

\* the loop of lines 477-482 on raw, then the loop of lines 498-499 on what
\* it left: result holds what the first loop left
ProtectAndRestore ==
    /\ called = "none"
    /\ LET protected == protect_words(raw)
       IN  /\ result' = [stage |-> "protect",
                         expression |-> protected.expression,
                         temp_replacements |-> protected.temp_replacements]
           /\ text' = restore_words(protected.expression,
                                    protected.temp_replacements)
    /\ called' = "protect_words"
    /\ UNCHANGED <<raw, before, trail, parsed, arg, engine, pipeVars, chatVars>>

ProtectNext == ProtectAndRestore

-----------------------------------------------------------------------------
(* The five multiplication rules of handle_mathematical_notation, applied  *)
(* to a protected text in every order.                                     *)
(***************************************************************************)

\* a variant of the rules in which the second one also takes the `*` that
\* another rule wrote for a letter: ([a-zA-Z_*])(\d+)
rule_classes_overlapping ==
    << <<DigitChars, LetterChars>>, <<LetterChars \cup {"*"}, DigitChars>>,
       <<DigitChars, {"("}>>, <<{")"}, LetterChars>>, <<{")"}, DigitChars>> >>

\* the character before and the character after the `*` of each rule, in the
\* order of the source: (\d+)([a-zA-Z_]), ([a-zA-Z_])(\d+), (\d+)\(,
\* \)([a-zA-Z_]), \)(\d+)
rule_classes ==
    << <<DigitChars, LetterChars>>, <<LetterChars, DigitChars>>,
       <<DigitChars, {"("}>>, <<{")"}, LetterChars>>, <<{")"}, DigitChars>> >>

\* the re.sub calls of the rules order[k], order[k + 1], ... one after the
\* other
RECURSIVE apply_rules(_, _, _)
apply_rules(s, order, k) ==
    IF k > Len(order) THEN s
    ELSE LET next == InsertMulFrom(s, rule_classes[order[k]][1],
                                   rule_classes[order[k]][2], 1)
         IN  IF Computed(next) THEN apply_rules(next, order, k + 1) ELSE next

\* the orders the five rules can be written in
RuleOrders ==
    {o \in [1..Len(rule_classes) -> 1..Len(rule_classes)] :
        \A i, j \in 1..Len(rule_classes) : i # j => o[i] # o[j]}

\* texts of a number, a letter, a parenthesised letter and a protected word
RuleInputs ==
    {Flatten(ts) :
        ts \in UNION {[1..n -> { <<"2">>, <<"x">>, <<"(","x",")">>,
                                 <<"s","i","n">> }] : n \in 0..MaxTokens}}

RulesInit ==
    /\ raw \in RuleInputs
    /\ text = raw
    /\ before = raw
    /\ trail = <<>>
    /\ parsed = NoParse
    /\ CallIdle
    /\ arg = None
    /\ PipeIdle
    /\ ChatIdle

\* lines 477-482 on raw, then the five re.sub calls of lines 486-495 in the
\* order `order`; result holds the protected text, the order, and what the
\* five calls give in the order of the source
ApplyRulesInOrder ==
    /\ called = "none"
    /\ LET protected    == protect_words(raw).expression
           source_order == insert_multiplication(protected)
       IN  \E order \in RuleOrders :
             /\ result' = [stage |-> "rules", protected |-> protected,
                           order |-> order, source_order |-> source_order]
             /\ text' = apply_rules(protected, order, 1)
    /\ called' = "insert_multiplication"
    /\ UNCHANGED <<raw, before, trail, parsed, arg, engine, pipeVars, chatVars>>

RulesNext == ApplyRulesInOrder

-----------------------------------------------------------------------------
(* process_user_input stage by stage: called is the stage function that    *)
(* returned last, result is final_result, and calls holds the stage        *)
(* functions in the order process_user_input called them.                  *)
(***************************************************************************)

\* final_result as lines 925-931 make it
final_result(user_input) ==
    [success |-> FALSE, original_input |-> user_input, stages |-> <<>>,
     final_answer |-> NoResult, problem_type |-> "None"]

\* final_result['stages'].append(stage)
recorded(final, stage) == [final EXCEPT !.stages = Append(final.stages, stage)]

StagesInit == PipelineInit

\* lines 925-936: the engine's behaviour for the whole run is fixed here
RunStage1 ==
    /\ called = "none"
    /\ \E p \in ParseOutcomes(raw), has \in BOOLEAN, format \in Formats :
         LET expr == IF p = Raise THEN None ELSE p IN
         \E s2 \in PipelineSimplify(expr) :
           \E s3 \in PipelineSolve(step2_simplify(expr, s2).simplified_expression,
                                   expr, s2["simplify"]) :
             LET eng == [parse |-> p, has |-> has, simplify |-> s2,
                         solve |-> s3, format |-> format]
             IN  /\ engine' = eng
                 /\ result' = recorded(final_result(raw),
                                       step1_parse_and_validate(raw, eng))
    /\ calls' = Append(calls, Call("process_user_input",
                                   "step1_parse_and_validate", raw))
    /\ called' = "step1_parse_and_validate"
    /\ parsed' = parse_mathematical_expression(raw)
    /\ UNCHANGED <<arg, raw, text, before, trail, show_steps, chatVars>>

\* the return of line 953, inside `if show_steps:`
stage1_returns(final, show) == show /\ ~final.stages[1].success

\* a return of line 953 that reports the request as done
ReturnAfterStage1AsSuccess ==
    /\ called = "step1_parse_and_validate"
    /\ stage1_returns(result, show_steps)
    /\ result' = [result EXCEPT !.success = TRUE]
    /\ called' = "process_user_input"
    /\ UNCHANGED <<textVars, arg, engine, show_steps, calls, chatVars>>

ReturnAfterStage1 ==
    /\ called = "step1_parse_and_validate"
    /\ stage1_returns(result, show_steps)
    /\ called' = "process_user_input"
    /\ UNCHANGED <<textVars, arg, engine, result, show_steps, calls, chatVars>>

\* lines 955-959
RunStage2 ==
    /\ called = "step1_parse_and_validate"
    /\ ~stage1_returns(result, show_steps)
    /\ LET expr == result.stages[1].parsed_expression
       IN  /\ result' = recorded(result, step2_simplify(expr, engine.simplify))
           /\ calls' = Append(calls, Call("process_user_input", "step2_simplify", expr))
    /\ called' = "step2_simplify"
    /\ UNCHANGED <<textVars, arg, engine, show_steps, chatVars>>

\* lines 976-981
RunStage3 ==
    /\ called = "step2_simplify"
    /\ LET simplified_expr == result.stages[2].simplified_expression
           stage3 == step3_solve(simplified_expr, engine.solve)
       IN  /\ result' = [recorded(result, stage3) EXCEPT
                            !.problem_type = stage3.problem_type]
           /\ calls' = Append(calls, Call("process_user_input", "step3_solve",
                                          simplified_expr))
    /\ called' = "step3_solve"
    /\ UNCHANGED <<textVars, arg, engine, show_steps, chatVars>>

\* lines 998-1000
RunStage4 ==
    /\ called = "step3_solve"
    /\ LET stage3 == result.stages[3]
       IN  /\ result' = recorded(result,
                            step4_format_output(stage3.solutions,
                                                stage3.problem_type, engine.format))
           /\ calls' = Append(calls, Call("process_user_input",
                                          "step4_format_output", stage3.solutions))
    /\ called' = "step4_format_output"
    /\ UNCHANGED <<textVars, arg, engine, show_steps, chatVars>>

\* lines 1007-1008 and the return of line 1025
ReturnFinalResult ==
    /\ called = "step4_format_output"
    /\ result' = [result EXCEPT !.final_answer = result.stages[4],
                                !.success = TRUE]
    /\ called' = "process_user_input"
    /\ UNCHANGED <<textVars, arg, engine, show_steps, calls, chatVars>>

StagesNext ==
    \/ RunStage1
    \/ ReturnAfterStage1
    \/ RunStage2
    \/ RunStage3
    \/ RunStage4
    \/ ReturnFinalResult

-----------------------------------------------------------------------------
(* One chat call on a history that earlier exchanges have left.            *)
(***************************************************************************)

\* the history after n exchanges of a dialogue whose user took the two
\* messages in turn, for every n up to the HistoryLimit
Histories ==
    {[k \in 1..(2 * n) |->
         IF k % 2 = 1
         THEN Entry("user", IF k % 4 = 1 THEN "2+2" ELSE "x^2 = 4")
         ELSE Entry("assistant", "reply")] : n \in 0..(HistoryLimit \div 2)}

FrameInit ==
    /\ TextIdle
    /\ CallIdle
    /\ PipeIdle
    /\ arg = "none"
    /\ settings \in {s \in AllSettings :
                        ~s.ai_error_explanations /\ ~s.ai_step_explanations}
    /\ conversation_history \in Histories
    /\ exchanged = conversation_history

\* chat(message, prompt_type, include_history); the state keeps the
\* arguments of the call beside what it returned
ChatOnHistory ==
    /\ called = "none"
    /\ \E message \in Messages, prompt_type \in PromptTypes,
          include_history \in BOOLEAN, service \in Services :
         LET run == chat(conversation_history, message, prompt_type,
                         include_history, settings.skip_model_check, service)
         IN  /\ called' = "chat"
             /\ arg' = message
             /\ engine' = service
             /\ result' = [stage |-> "assistant", returned |-> run.returned,
                           prompt_type |-> prompt_type,
                           include_history |-> include_history]
             /\ conversation_history' = run.conversation_history
             /\ exchanged' =
                    IF include_history /\ prompt_type = "dialog"
                       /\ run.returned = "reply"
                    THEN exchanged \o << Entry("user", message),
                                         Entry("assistant", run.returned) >>
                    ELSE exchanged
    /\ UNCHANGED <<textVars, pipeVars, settings>>

FrameNext == ChatOnHistory

-----------------------------------------------------------------------------
(* The specifications. *)

\* the text functions on the texts of Inputs
TextOnlyInit ==
    /\ TextInit
    /\ CallIdle
    /\ arg = None
    /\ PipeIdle
    /\ ChatIdle

SpecText == TextOnlyInit /\ [][TextNext]_vars

\* step2_simplify on the expressions of SimplifyInputs
SpecSimplify == SimplifyInit /\ [][SimplifyNext]_vars

\* step3_solve on the expressions of SolveInputs
SpecSolve == SolveInit /\ [][SolveNext]_vars

\* process_user_input on the texts of PipelineInputs
SpecPipeline == PipelineInit /\ [][PipelineNext]_vars

\* step4_format_output on the solutions of FormatInputs
SpecFormat == FormatInit /\ [][FormatNext]_vars

\* one call of chat, explain_error or explain_step, under every setting
SpecAssistant == AssistantInit /\ [][AssistantNext]_vars

\* a dialogue of interactive_mode
SpecDialogue == DialogueInit /\ [][DialogueNext]_vars

\* parse_mathematical_expression on the texts of ParseInputs
SpecParse == ParseInit /\ [][ParseNext]_vars

\* protection and restoration on the texts of ProtectInputs
SpecProtect == ProtectInit /\ [][ProtectNext]_vars

\* every order of the multiplication rules on every protected text
SpecRules == RulesInit /\ [][RulesNext]_vars

\* one request, stage by stage
SpecStages == StagesInit /\ [][StagesNext]_vars

\* one chat call after a dialogue
SpecFrame == FrameInit /\ [][FrameNext]_vars

-----------------------------------------------------------------------------
(* The claims about the text functions (SpecText). *)

LastCall == IF trail = <<>> THEN "none" ELSE trail[Len(trail)]

\* the identifier w stands in s next to a digit or a parenthesis
AdjacentIdentifier(s, w) ==
    \E i \in 1..Len(s) :
        /\ StartsAt(s, w, i)
        /\ \/ i > 1 /\ s[i - 1] \in DigitChars \cup {"(", ")"}
           \/ i + Len(w) <= Len(s) /\ s[i + Len(w)] \in DigitChars \cup {"(", ")"}

\* C1: the string handle_mathematical_notation hands to the parser holds
\* every protected identifier that stood next to a digit or a parenthesis in
\* its input, and no placeholder text; 2sin(x) is handed over as 2*sin(x).
C1_IdentifierIntact ==
    LastCall = "handle_mathematical_notation" =>
        /\ \A k \in 1..Len(protected_words) :
               AdjacentIdentifier(before, protected_words[k]) =>
                   /\ Contains(text, protected_words[k])
                   /\ ~Contains(text, <<"T","E","M","P">>)
        /\ before = <<"2","s","i","n","(","x",")">> =>
               text = <<"2","*","s","i","n","(","x",")">>

\* the text holds a power call name^2(x)
HasPowerCall(s) ==
    \E i \in 1..Len(s) : IsWordChar(s[i]) /\ StartsAt(s, <<"^","2","(","x",")">>, i + 1)

\* C2: parse_mathematical_expression hands every power call name^digits(args)
\* of a plain text to the parser as name(args)**digits; sin^2(x) reaches the
\* parser as sin(x)**2.
C2_PowerCallRewritten ==
    (LastCall = "parse_mathematical_expression" /\ parsed.node = "Expression"
        /\ HasPowerCall(raw)) =>
        /\ Contains(parsed.engine[1], <<"(","x",")","*","*","2">>)
        /\ raw = <<"s","i","n","^","2","(","x",")">> =>
               parsed.engine[1] = <<"s","i","n","(","x",")","*","*","2">>

\* C3, as the specification states it: preprocess_text rewrites lnx to
\* log(x), and leaves no alias ln in the text.
C3_AliasInsideWord ==
    trail = <<"preprocess_text">> =>
        /\ ~Contains(text, <<"l","n">>)
        /\ raw = <<"l","n","x">> => text = <<"l","o","g","(","x",")">>

\* C3, amended: preprocess_text rewrites the alias ln where it stands as a
\* whole word (ln(x) becomes log(x)) and leaves no whole word ln; lnx, where a
\* letter follows ln, is returned unchanged.
C3_AliasWholeWord ==
    trail = <<"preprocess_text">> =>
        /\ ~HasWord(text, <<"l","n">>)
        /\ raw = <<"l","n","(","x",")">> => text = <<"l","o","g","(","x",")">>
        /\ raw = <<"l","n","x">> => text = <<"l","n","x">>

C3_Witness ==
    /\ trail = <<"preprocess_text">>
    /\ raw = <<"l","n","x">>
    /\ text = <<"l","n","x">>

\* C4: preprocess_text is idempotent: applied to its own result it returns
\* that result.
C4_Idempotent ==
    trail = <<"preprocess_text", "preprocess_text">> => text = before

-----------------------------------------------------------------------------
(* The claims about process_user_input (SpecPipeline). *)

\* the expression stage 1 parsed, in a finished run
ParsedExpression == result.stages[1].parsed_expression

\* C5: in a run of process_user_input that parsed a Derivative or an
\* Integral, no simplification function of the engine is called on a
\* Derivative or an Integral up to the solve stage, stage-1 validation
\* included, and step3_solve is given the parsed expression itself.
C5_ConstructNeverSimplified ==
    (called = "process_user_input" /\ is_construct(ParsedExpression)) =>
        \A k \in 1..Len(calls) :
            /\ calls[k].fn \in Strategies => ~is_construct(calls[k].on)
            /\ calls[k].fn = "step3_solve" => calls[k].on = ParsedExpression

\* C12: a run of process_user_input whose stage 1 failed, with show_steps
\* true or false, ran no other stage and returned success=false and no
\* problem type.
C12_StageOneFailureAborts ==
    (called = "process_user_input" /\ ~result.stages[1].success) =>
        /\ Len(result.stages) = 1
        /\ ~result.success
        /\ result.problem_type = "None"

\* C13: a run of process_user_input that returned success=true recorded
\* success in every stage of its trace, and its solve stage and its format
\* stage each produced an output.
C13_NoPartialSuccess ==
    (called = "process_user_input" /\ result.success) =>
        /\ \A k \in 1..Len(result.stages) : result.stages[k].success
        /\ result.stages[3].solutions # None
        /\ result.stages[4].numerical_output # "None"


\* the items of `steps` of the call in the state
StepsOfCall == all_steps(arg, engine)

\* the step of this name returned something other than the input
Differs(step_name) ==
    \E k \in 1..Len(StepsOfCall) :
        StepsOfCall[k][1] = step_name /\ StepsOfCall[k][2] # arg

\* the call of the state chose what the step of this name returned
ChoseStep(step_name) ==
    \E k \in 1..Len(StepsOfCall) :
        /\ StepsOfCall[k][1] = step_name
        /\ result.simplified_expression = StepsOfCall[k][2]

Simplified == called = "step2_simplify" /\ ~is_construct(arg)

\* C6: step2_simplify called on a Derivative or Integral returns
\* success=true, its input as the simplified expression and an empty mapping
\* of simplification steps.
C6_ConstructPreserved ==
    (called = "step2_simplify" /\ is_construct(arg)) =>
        /\ result.success
        /\ result.simplified_expression = arg
        /\ result.simplification_steps = <<>>

C6_Witness ==
    /\ called = "step2_simplify"
    /\ arg.kind = "Derivative"
    /\ "log(exp(..))" \in arg.marks
    /\ engine["simplify"] \in Forms
    /\ result.simplified_expression = arg

\* C7: when a candidate that differs from the input has a name of the
\* priority list (log_exp_identity, exp_log_identity, log_exp_replace),
\* step2_simplify chooses the candidate of the first such name, whatever the
\* operation counts of the other candidates.
C7_PriorityFirst ==
    Simplified =>
        /\ Differs("log_exp_identity") => ChoseStep("log_exp_identity")
        /\ (~Differs("log_exp_identity") /\ Differs("exp_log_identity"))
               => ChoseStep("exp_log_identity")
        /\ (~Differs("log_exp_identity") /\ ~Differs("exp_log_identity")
               /\ Differs("log_exp_replace")) => ChoseStep("log_exp_replace")

\* a priority candidate is chosen over a candidate with fewer operations
C7_Witness ==
    /\ Simplified
    /\ ~Differs("log_exp_identity") /\ ~Differs("exp_log_identity")
    /\ Differs("log_exp_replace")
    /\ Differs("basic")
    /\ count_ops(engine["simplify"]) < count_ops(engine["replace"])
    /\ result.simplified_expression = engine["replace"]

NoPriorityCandidate ==
    /\ ~Differs("log_exp_identity")
    /\ ~Differs("exp_log_identity")
    /\ ~Differs("log_exp_replace")

\* the place of a strategy in the order of declaration
StrategyOrder ==
    <<"basic", "expanded", "factored", "cancelled", "collected", "trigsimp",
      "logsimp", "powersimp", "expand_log">>

OrderOf(step_name) == CHOOSE n \in 1..Len(StrategyOrder) : StrategyOrder[n] = step_name

\* the candidates: <<name, tree>> of every step that differs from the input
CandidateSet == {StepsOfCall[k] : k \in {j \in 1..Len(StepsOfCall) : StepsOfCall[j][2] # arg}}

AllRaise == \A s \in Strategies \cup Extractions : engine[s] = Raise

\* C9: whichever strategies fail, step2_simplify does not raise: it reports
\* success=true and returns an expression, the input itself when every
\* strategy failed.
C9_FailuresTolerated ==
    called = "step2_simplify" =>
        /\ result.success
        /\ result.errors = <<>>
        /\ result.simplified_expression \in Trees
        /\ AllRaise => result.simplified_expression = arg

C9_Witness ==
    /\ Simplified
    /\ AllRaise
    /\ {"trig", "log"} \subseteq arg.marks
    /\ result.success
    /\ result.simplified_expression = arg

-----------------------------------------------------------------------------
(* The claims about step3_solve (SpecSolve). *)

Solved == called = "step3_solve" /\ arg # None

\* the categories the order of the claim allows the expression of the call
FirstMatch ==
    IF arg.kind = "Derivative" THEN {"derivative"}
    ELSE IF arg.kind = "Integral" THEN {"integral"}
    ELSE IF arg.kind = "Equation" THEN {"equation"}
    ELSE IF "<>" \in arg.marks THEN {"inequality"}
    ELSE IF arg.symbols = 0 THEN {"numerical_evaluation"}
    ELSE {"simplification", "equation_zero"}

\* how many of the five conditions of the order the expression satisfies
ConditionsMet ==
    Cardinality({c \in {"Derivative", "Integral", "Equation"} : arg.kind = c})
    + (IF "<>" \in arg.marks THEN 1 ELSE 0)
    + (IF arg.symbols = 0 THEN 1 ELSE 0)

SolvingRaised ==
    \/ arg = None
    \/ arg.kind \in {"Derivative", "Integral"} /\ engine["doit"] = Raise
    \/ arg.kind = "Equation" /\ engine["solve"] = Raise
    \/ /\ FirstMatch = {"inequality"}
       /\ arg.symbols = 1
       /\ engine["solve_univariate_inequality"] = Raise
       /\ engine["solve"] = Raise
    \/ FirstMatch = {"numerical_evaluation"} /\ engine["evalf"] = Raise
    \/ FirstMatch = {"simplification", "equation_zero"} /\ engine["simplify"] = Raise

\* C11: step3_solve always returns its dictionary.  When classification or
\* solving raised, the dictionary carries a diagnostic and, if sp.simplify
\* of the expression returns, category simplification with that value as
\* solution and success=true, whatever category had been assigned; if
\* sp.simplify raises too, success=false.  A failure always carries a
\* diagnostic.
C11_FallbackOnException ==
    called = "step3_solve" =>
        /\ result.stage = "solve"
        /\ SolvingRaised => result.errors # <<>>
        /\ result.errors # <<>> =>
               IF engine["simplify"] # Raise
               THEN /\ result.success
                    /\ result.problem_type = "simplification"
                    /\ result.solutions = engine["simplify"]
               ELSE ~result.success
        /\ ~result.success => result.errors # <<>>

\* sp.solve raised on an Equation, and the fallback replaced the category
C11_Witness ==
    /\ called = "step3_solve"
    /\ arg.kind = "Equation"
    /\ engine["solve"] = Raise
    /\ engine["simplify"] \in Forms
    /\ result.success
    /\ result.problem_type = "simplification"
    /\ result.solutions = engine["simplify"]
    /\ result.errors # <<>>

-----------------------------------------------------------------------------
(* The claims about step4_format_output (SpecFormat). *)

\* C14: whenever step4_format_output reports success=false, for a solution
\* that is present or absent, the numeric, markup and pretty fields are all
\* null and the errors list holds at least one diagnostic.
C14_FailureIsDiagnosed ==
    (called = "step4_format_output" /\ ~result.success) =>
        /\ result.numerical_output = "None"
        /\ result.latex_output = "None"
        /\ result.pretty_output = "None"
        /\ result.errors # <<>>

-----------------------------------------------------------------------------
(* The claims about the assistant (SpecDialogue, SpecAssistant). *)

\* C15: after any sequence of chat calls and clear commands,
\* conversation_history holds at most 20 entries, and they are the most recent
\* entries appended since the history was last emptied, in their order.
C15_MostRecentEntries ==
    LET n == Len(exchanged)
        k == IF n > 20 THEN 20 ELSE n
    IN  /\ Len(conversation_history) = k
        /\ \A i \in 1..k : conversation_history[i] = exchanged[n - k + i]

C15_Witness ==
    /\ called = "chat"
    /\ Len(exchanged) = 22
    /\ Len(conversation_history) = 20
    /\ conversation_history[1] = exchanged[3]
    /\ conversation_history[1] # exchanged[1]

\* the assistant could not answer the call recorded in the state
FailureMode ==
    \/ ~engine.installed
    \/ engine.list = "raise"
    \/ /\ ~settings.skip_model_check
       /\ \/ engine.models = "raise"
          \/ engine.models = "without model" /\ engine.pull = "raise"
    \/ engine.chat = "raise"

\* the sentinel of the failure: the library or the service, then the model,
\* then the chat request
Sentinel ==
    IF ~engine.installed \/ engine.list = "raise" THEN "Ollama unavailable"
    ELSE IF /\ ~settings.skip_model_check
            /\ \/ engine.models = "raise"
               \/ engine.models = "without model" /\ engine.pull = "raise"
    THEN "model unavailable"
    ELSE "AI error"

AssistantCalled ==
    called \in {"chat", "explain_error", "explain_step", "process_user_input"}

\* C16 as stated: in every failure mode of the assistant chat, explain_error
\* and explain_step return a sentinel string.
C16_AlwaysSentinel ==
    (called \in {"chat", "explain_error", "explain_step"} /\ FailureMode) =>
        result.returned = Sentinel

\* C16: in every failure mode of the assistant (library not installed, service
\* unreachable, model missing and not downloadable, transport error) no call
\* raises; chat returns the sentinel string of the failure; explain_error and
\* explain_step return it when their explanations are switched on and return
\* None, without consulting the assistant, when they are switched off; and
\* process_user_input gets a value back after a stage and continues.
C16_SentinelWhenConsulted ==
    (AssistantCalled /\ FailureMode) =>
        /\ result.returned # "raise"
        /\ called = "chat" => result.returned = Sentinel
        /\ called = "explain_error" =>
               result.returned =
                   IF settings.ai_error_explanations THEN Sentinel ELSE "None"
        /\ called = "explain_step" =>
               result.returned =
                   IF settings.ai_step_explanations THEN Sentinel ELSE "None"
        /\ called = "process_user_input" =>
               result.returned =
                   IF engine.installed /\ settings.ai_step_explanations
                   THEN Sentinel ELSE "None"
        /\ conversation_history = <<>>

C16_Witness ==
    /\ called = "explain_step"
    /\ settings.ai_step_explanations
    /\ ~settings.skip_model_check
    /\ engine.installed
    /\ engine.list = "return"
    /\ engine.models = "without model"
    /\ engine.pull = "raise"
    /\ result.returned = "model unavailable"

-----------------------------------------------------------------------------
(* The independence of the strategies of step2_simplify (SpecSimplify). *)

\* the strategies the text of the expression selects, each with the name of
\* its step
Selected ==
    {<<"simplify", "basic">>, <<"expand", "expanded">>,
     <<"factor", "factored">>, <<"cancel", "cancelled">>}
    \cup (IF arg.symbols > 0 THEN {<<"collect", "collected">>} ELSE {})
    \cup (IF "trig" \in arg.marks THEN {<<"trigsimp", "trigsimp">>} ELSE {})
    \cup (IF "log" \in arg.marks
          THEN {<<"logcombine", "logsimp">>, <<"powsimp", "powersimp">>,
                <<"expand_log", "expand_log">>}
          ELSE {})
    \cup (IF "log(exp(" \in arg.marks THEN {<<"replace", "log_exp_replace">>}
          ELSE {})

\* C17: every strategy of step2_simplify runs independently: whichever other
\* strategies fail, a selected strategy that returns a new form of the
\* expression contributes it as a step.
C17_StrategiesIndependent ==
    Simplified =>
        \A s \in Selected :
            engine[s[1]] \notin {Raise, arg} =>
                \E k \in 1..Len(result.simplification_steps) :
                    result.simplification_steps[k] = <<s[2], engine[s[1]]>>

-----------------------------------------------------------------------------
(* The claims about parse_mathematical_expression (SpecParse). *)

Parsed == trail = <<"parse_mathematical_expression">>

\* the positions of raw that hold an = that is not part of <=, >= or ==
BareEquals ==
    {i \in 1..Len(raw) :
        /\ raw[i] = "="
        /\ i > 1 => raw[i - 1] \notin {"<", ">", "="}
        /\ i < Len(raw) => raw[i + 1] # "="}

AllEquals == {i \in 1..Len(raw) : raw[i] = "="}

\* the two sides of raw at position i, normalized
Sides(i) ==
    << preprocess_text(strip(SubStr(raw, 1, i - 1))),
       preprocess_text(strip(SubStr(raw, i + 1, Len(raw)))) >>

\* C18 as stated: every text that holds a bare = is split there and returned
\* as an Equation, and is never passed whole to handle_mathematical_notation.
C18_BareEqualsSplits ==
    (Parsed /\ BareEquals # {}) =>
        /\ parsed.node = "Equation"
        /\ Len(parsed.notation) = 2

\* C18: every text that holds exactly one =, a bare one, is split at it: the
\* two sides are normalized and resolved independently, an Equation of them is
\* built, and the text is never passed whole to handle_mathematical_notation.
C18_SingleEqualsSplits ==
    (Parsed /\ BareEquals # {} /\ Cardinality(AllEquals) = 1) =>
        \E i \in BareEquals :
            /\ parsed.node = "Equation"
            /\ parsed.notation = Sides(i)
            /\ parsed.engine =
                   << handle_mathematical_notation(parsed.notation[1]),
                      handle_mathematical_notation(parsed.notation[2]) >>

C18_Witness ==
    /\ Parsed
    /\ raw = <<"x", "=", "2">>
    /\ parsed.node = "Equation"
    /\ parsed.notation = << <<"x">>, <<"2">> >>


\* the text of the call is split as an equation (lines 525-527)
SplitAsEquation == has_bare_equals(raw) /\ splits_in_two(raw)

\* <<A, B>> of the leftmost name(A,B) in the normalized text, B holding no
\* comma, or <<>>
CallIn(name) ==
    LET found == construct_match(preprocess_text(raw), name)
    IN  IF found # <<>> /\ ~Contains(found[2], <<",">>) THEN found ELSE <<>>

IntegrateCall == CallIn(<<"i","n","t","e","g","r","a","t","e">>)

DiffCall == CallIn(<<"d","i","f","f">>)

\* C19 as stated: a text whose normalized form holds integrate(A,B) is
\* returned as the Integral of A and B, one that holds diff(A,B) as the
\* Derivative of A and B, and is never forwarded to
\* handle_mathematical_notation.
C19_ConstructAlways ==
    Parsed =>
        /\ IntegrateCall # <<>> =>
               parsed.node = "Integral" /\ parsed.notation = <<>>
        /\ DiffCall # <<>> =>
               parsed.node = "Derivative" /\ parsed.notation = <<>>

\* C19: a text that is not split as an equation and whose normalized form
\* holds integrate(A,B) is returned as the Integral built from A and B; one
\* that holds diff(A,B) and no integrate(..,..) is returned as the Derivative
\* built from A and B; neither is forwarded to handle_mathematical_notation.
C19_ConstructUnlessEquation ==
    (Parsed /\ ~SplitAsEquation) =>
        /\ IntegrateCall # <<>> =>
               /\ parsed.node = "Integral"
               /\ parsed.engine = <<IntegrateCall[1], strip(IntegrateCall[2])>>
               /\ parsed.notation = <<>>
        /\ (DiffCall # <<>> /\ IntegrateCall = <<>>) =>
               /\ parsed.node = "Derivative"
               /\ parsed.engine = <<DiffCall[1], strip(DiffCall[2])>>
               /\ parsed.notation = <<>>

C19_Witness ==
    /\ Parsed
    /\ raw = <<"i","n","t","e","g","r","a","t","e","(","x",","," ","x",")">>
    /\ parsed.node = "Integral"
    /\ parsed.engine = << <<"x">>, <<"x">> >>
    /\ parsed.notation = <<>>

-----------------------------------------------------------------------------
(* The claim about the protection of identifiers (SpecProtect). *)

\* C20: protection followed by restoration gives the text back, for every
\* text and however many protected identifiers it holds, and every
\* placeholder that was inserted is still whole in the protected text: no
\* later identifier's protection rewrote it.
C20_ProtectionRoundTrip ==
    called = "protect_words" =>
        /\ text = raw
        /\ \A k \in 1..Len(result.temp_replacements) :
               Contains(result.expression, result.temp_replacements[k][1])


-----------------------------------------------------------------------------
(* The claim about the order of the multiplication rules (SpecRules). *)

\* the rules that write at least one `*` into the protected text
ActingRules ==
    {k \in 1..Len(rule_classes) : apply_rules(result.protected, <<k>>, 1) # result.protected}

\* C21: on a text whose protected words have been replaced by placeholders,
\* the five multiplication rules applied in any order give the string that
\* they give in the order of handle_mathematical_notation.
C21_RulesCommute ==
    called = "insert_multiplication" => text = result.source_order

\* two rules or more act, one of them inside a placeholder, and the order is
\* the reverse of the order of the source
C21_Witness ==
    /\ called = "insert_multiplication"
    /\ result.order = [k \in 1..5 |-> 6 - k]
    /\ Cardinality(ActingRules) >= 3
    /\ Contains(result.protected, temp_marker(0))
    /\ text = result.source_order
    /\ text # result.protected


-----------------------------------------------------------------------------
(* The claim about the recorded stages (SpecStages). *)

StageOrder == <<"parse", "simplify", "solve", "format">>

StageFunctions ==
    <<"step1_parse_and_validate", "step2_simplify", "step3_solve",
      "step4_format_output">>

\* C22: at every point of a process_user_input run the recorded stage
\* results are a prefix of parse, simplify, solve, format (so none is
\* recorded twice), the stage functions called so far are those of the
\* recorded stages in that order (none is started before the one before it
\* was recorded), and a result with success true has all four stages and the
\* format stage's result as final answer.
C22_StagesInOrder ==
    called # "none" =>
        /\ Len(result.stages) <= Len(StageOrder)
        /\ \A k \in 1..Len(result.stages) : result.stages[k].stage = StageOrder[k]
        /\ Len(calls) = Len(result.stages)
        /\ \A k \in 1..Len(calls) : calls[k].fn = StageFunctions[k]
        /\ result.success =>
               /\ Len(result.stages) = 4
               /\ result.final_answer = result.stages[4]

\* a run went through all four stages and reports success, its format stage
\* having failed
C22_Witness ==
    /\ called = "process_user_input"
    /\ result.success
    /\ Len(result.stages) = 4
    /\ ~result.stages[4].success


-----------------------------------------------------------------------------
(* The claim about the diagnostics of stage 1 (SpecPipeline). *)

\* C23: whenever step1_parse_and_validate reports success false its errors
\* list is not empty, whether parsing raised or validate_expression rejected
\* the parsed expression.
C23_ParseFailureIsDiagnosed ==
    called = "process_user_input" =>
        (~result.stages[1].success => result.stages[1].errors # <<>>)


-----------------------------------------------------------------------------
(* The claim about what a successful solve stage carries (SpecSolve). *)

\* C24: whenever step3_solve reports success true its result has a problem
\* type and a solution that are not None, in every category, the inequality
\* with no free variable or with several among them.
C24_SuccessCarriesSolution ==
    Solved =>
        (result.success =>
            /\ result.problem_type # "None"
            /\ result.solutions # None)


-----------------------------------------------------------------------------
(* The claim about what a chat call does to the history (SpecFrame). *)

\* C25: a chat call whose prompt type is not dialog, or whose
\* include_history is false (the calls of explain_error and explain_step),
\* or that fails (library or service unavailable, model unavailable, the
\* request raising) leaves conversation_history as it was.  A dialog call
\* with include_history that succeeds puts the user message and then the
\* assistant's response at the end of the history and nothing else; what
\* was there before stays in front of them, less the oldest entries when
\* the history would exceed HistoryLimit.
C25_HistoryFrame ==
    [][called' = "chat" =>
          IF /\ result'.prompt_type = "dialog"
             /\ result'.include_history
             /\ ~FailureMode'
          THEN LET old == conversation_history
                   new == conversation_history'
                   n   == IF Len(old) + 2 > HistoryLimit THEN HistoryLimit
                          ELSE Len(old) + 2
               IN  /\ Len(new) = n
                   /\ new[n - 1] = Entry("user", arg')
                   /\ new[n] = Entry("assistant", result'.returned)
                   /\ \A k \in 1..(n - 2) : new[k] = old[Len(old) - (n - 2) + k]
          ELSE conversation_history' = conversation_history]_vars

\* a call that did not concern the dialogue left a history of several
\* exchanges alone
C25_Witness ==
    /\ called = "chat"
    /\ result.prompt_type = "error"
    /\ ~result.include_history
    /\ ~FailureMode
    /\ Len(conversation_history) = 6
    /\ conversation_history = exchanged


-----------------------------------------------------------------------------
(* The claim about the identity fast path (SpecSimplify). *)

\* the expression is the matched call and nothing else
WholeMatch(expr) == expr.name \in {"log(exp(x))", "exp(log(x))"}

\* what the strategies that returned made of the whole expression
StrategyResults == {engine[s] : s \in Strategies} \ {Raise}

\* C26: the expression step2_simplify chooses is the input or what a
\* strategy returned for the whole input; when the input has terms or
\* factors around a log(exp(..)) or exp(log(..)) call, the inner argument
\* that the identity patterns extracted from its text is not chosen in its
\* place.
C26_WholeExpressionSimplified ==
    (called = "step2_simplify" /\ ~WholeMatch(arg)) =>
        result.simplified_expression \in {arg} \cup StrategyResults

=============================================================================
